---- MODULE Spec2Model ----
(***************************************************************************)
(* i-Mitra grievance tracking: a model of the complaint classifier, the    *)
(* SLA sub-document and the complaint life cycle of the REST controllers.  *)
(*                                                                         *)
(* The repository holds two generations of several files (a CommonJS one   *)
(* and an ES-module one).  Where both exist both are modelled; the         *)
(* CommonJS definitions carry the suffix Cjs.                              *)
(*                                                                         *)
(* Numbers: a confidence is kept in hundredths (0.8 is 80); time is kept   *)
(* in ticks, TicksPerHour ticks to the hour.                               *)
(***************************************************************************)
EXTENDS Integers, Sequences, FiniteSets, TLC

VARIABLES
    slaCalc,      \* SLA: the results of calculateSLA for one department
    clsInput,     \* classifier: the call's arguments and the AI's behaviour
    clsResult,    \* classifier: what classifyComplaint resolved with, per service
    now,          \* SLA: the clock, in ticks
    doc,          \* SLA: the stored complaint document (its sla sub-document)
    view,         \* SLA: the sla.status of the document last saved or returned
    users,        \* life cycle: the users collection
    complaints,   \* life cycle: the complaints collection
    res,          \* life cycle: the answer to the last request
    handled,      \* error handler: the last error passed to it and its answer
    account,      \* auth: the stored credentials of one user
    clock,        \* auth: the time, in minutes
    jwts,         \* auth: the iat of every token signed for the user
    resetIssued,  \* auth: how many password-reset tokens were generated
    inflight,     \* auth: the login requests between their read and their write
    authRes,      \* auth: the answer to the last auth request
    phone,        \* phone: the user's number and its verification fields
    codeLog,      \* phone: what became of the stored code (history)
    phoneRes,     \* phone: the answer to the last phone request
    attempts,     \* limiter: the Map of sensitiveOpLimit, key to count and timestamp
    limitNow,     \* limiter: Date.now(), in ticks
    limitLog,     \* limiter: the requests of one client and their outcomes (history)
    limitRes      \* limiter: what the last request was answered

vars == <<slaCalc, clsInput, clsResult, now, doc, view, users, complaints, res,
          handled, account, clock, jwts, resetIssued, inflight, authRes,
          phone, codeLog, phoneRes, attempts, limitNow, limitLog, limitRes>>

clsVars == <<clsInput, clsResult>>
slaVars == <<now, doc, view>>
calcVars == <<slaCalc>>
appVars == <<users, complaints, res>>
credVars == <<account, clock, jwts, resetIssued, inflight, authRes>>
phoneVars == <<phone, codeLog, phoneRes>>
limitVars == <<attempts, limitNow, limitLog, limitRes>>
extVars == <<phoneVars, limitVars>>
authVars == <<handled, credVars, extVars>>

Null == "null"

Min(a, b) == IF a < b THEN a ELSE b
Max(a, b) == IF a > b THEN a ELSE b

(***************************************************************************)
(* JSON values of the AI reply: a field is absent, a string or a number.   *)
(***************************************************************************)
JUndef == [t |-> "undefined", s |-> "", n |-> 0]
JStr(s) == [t |-> "string", s |-> s, n |-> 0]
JNum(n) == [t |-> "number", s |-> "", n |-> n]

(***************************************************************************)
(* Complaint text.  title + ' ' + description, lower-cased, is modelled as *)
(* the set of fragments it is made of; String.includes(keyword) holds when *)
(* some fragment contains the keyword.  No keyword of the tables spans two *)
(* fragments of Vocabulary.                                                *)
(***************************************************************************)
Vocabulary ==
    {"fire", "emergency", "hospital", "medical", "serious", "major",
     "severe", "road", "parking"}

\* the keywords of the tables that occur inside a fragment
Contained(w) == IF w = "parking" THEN {"parking", "park"} ELSE {w}

includes(text, keyword) == \E w \in text : keyword \in Contained(w)

(***************************************************************************)
(* AIClassificationService, ES-module generation.                          *)
(***************************************************************************)
categories ==
    {"Road and Infrastructure", "Water Supply", "Electricity", "Sanitation",
     "Traffic and Transportation", "Health and Safety", "Education",
     "Fire Safety", "Revenue and Tax", "Urban Planning", "Environment",
     "Street Lighting", "Other"}

departments ==
    {"PWD", "Water Works", "Electricity", "Sanitation", "Traffic Police",
     "Health Department", "Education", "Fire Department", "Revenue",
     "Town Planning", "Horticulture", "Street Lighting"}

priorities == {"low", "medium", "high", "critical"}

\* categoryDepartmentMap with Fire Safety sent to the default department
categoryDepartmentMapNoFire ==
    [c \in categories |->
        CASE c = "Road and Infrastructure" -> "PWD"
          [] c = "Water Supply" -> "Water Works"
          [] c = "Electricity" -> "Electricity"
          [] c = "Sanitation" -> "Sanitation"
          [] c = "Traffic and Transportation" -> "Traffic Police"
          [] c = "Health and Safety" -> "Health Department"
          [] c = "Education" -> "Education"
          [] c = "Fire Safety" -> "PWD"
          [] c = "Revenue and Tax" -> "Revenue"
          [] c = "Urban Planning" -> "Town Planning"
          [] c = "Environment" -> "Horticulture"
          [] c = "Street Lighting" -> "Street Lighting"
          [] c = "Other" -> "PWD"]

categoryDepartmentMap ==
    [c \in categories |->
        CASE c = "Road and Infrastructure" -> "PWD"
          [] c = "Water Supply" -> "Water Works"
          [] c = "Electricity" -> "Electricity"
          [] c = "Sanitation" -> "Sanitation"
          [] c = "Traffic and Transportation" -> "Traffic Police"
          [] c = "Health and Safety" -> "Health Department"
          [] c = "Education" -> "Education"
          [] c = "Fire Safety" -> "Fire Department"
          [] c = "Revenue and Tax" -> "Revenue"
          [] c = "Urban Planning" -> "Town Planning"
          [] c = "Environment" -> "Horticulture"
          [] c = "Street Lighting" -> "Street Lighting"
          [] c = "Other" -> "PWD"]

\* Object.entries(keywordPatterns): the categories in insertion order
keywordPatternsOrder ==
    <<"Road and Infrastructure", "Water Supply", "Electricity", "Sanitation",
      "Traffic and Transportation", "Health and Safety", "Education",
      "Fire Safety", "Revenue and Tax", "Urban Planning", "Environment",
      "Street Lighting">>

keywordPatterns(category) ==
    CASE category = "Road and Infrastructure" ->
           {"road", "street", "pothole", "bridge", "footpath", "sidewalk",
            "construction", "repair", "maintenance", "infrastructure",
            "pathway", "highway", "flyover", "underpass", "divider", "median"}
      [] category = "Water Supply" ->
           {"water", "tap", "pipeline", "leakage", "supply", "shortage",
            "quality", "contamination", "pressure", "connection", "meter",
            "billing", "sewage", "drainage", "overflow"}
      [] category = "Electricity" ->
           {"electricity", "power", "outage", "blackout", "transformer",
            "pole", "wire", "cable", "meter", "billing", "connection",
            "voltage", "supply", "cut", "fault", "short circuit"}
      [] category = "Sanitation" ->
           {"garbage", "waste", "cleaning", "sweeping", "collection",
            "dustbin", "toilet", "public toilet", "sanitation", "hygiene",
            "disposal", "litter", "dump", "bin", "cleanliness"}
      [] category = "Traffic and Transportation" ->
           {"traffic", "signal", "jam", "congestion", "parking", "vehicle",
            "bus", "auto", "rickshaw", "transport", "violation", "challan",
            "fine", "license", "permit", "registration"}
      [] category = "Health and Safety" ->
           {"health", "hospital", "medical", "doctor", "clinic", "medicine",
            "safety", "accident", "emergency", "ambulance", "vaccination",
            "disease", "epidemic", "food safety", "pollution"}
      [] category = "Education" ->
           {"school", "college", "education", "teacher", "student", "class",
            "admission", "fee", "scholarship", "uniform", "book", "facility",
            "playground", "library", "computer"}
      [] category = "Fire Safety" ->
           {"fire", "emergency", "safety", "extinguisher", "alarm", "smoke",
            "rescue", "evacuation", "hazard", "building safety", "exit"}
      [] category = "Revenue and Tax" ->
           {"tax", "property", "revenue", "assessment", "payment", "receipt",
            "registration", "document", "certificate", "license", "permit",
            "fine", "penalty", "refund"}
      [] category = "Urban Planning" ->
           {"planning", "construction", "building", "approval", "permit",
            "zoning", "layout", "development", "land", "property", "map",
            "survey", "boundary", "encroachment"}
      [] category = "Environment" ->
           {"environment", "pollution", "noise", "air", "tree", "park",
            "garden", "green", "plantation", "cutting", "conservation",
            "waste", "recycling", "clean", "nature"}
      [] category = "Street Lighting" ->
           {"street light", "lamp", "lighting", "bulb", "pole", "dark",
            "illumination", "night", "safety", "visibility", "repair",
            "installation", "maintenance"}

\* Object.entries(priorityKeywords): the levels in insertion order
priorityKeywordsOrder == <<"critical", "high", "medium", "low">>

priorityKeywords(level) ==
    CASE level = "critical" ->
           {"emergency", "urgent", "critical", "danger", "life threatening",
            "immediate", "fire", "accident", "injury", "death", "collapse",
            "explosion", "gas leak", "electric shock", "flood"}
      [] level = "high" ->
           {"serious", "major", "important", "significant", "severe",
            "broken", "damaged", "not working", "completely", "total",
            "public safety", "health risk", "contaminated"}
      [] level = "medium" ->
           {"problem", "issue", "concern", "needs attention", "repair",
            "maintenance", "improvement", "upgrade", "replace"}
      [] level = "low" ->
           {"minor", "small", "suggestion", "request", "enhancement",
            "cosmetic", "aesthetic", "convenience", "when possible"}

\* keywords.filter(keyword => text.includes(keyword)).length
matchCount(text, keywords) == Cardinality({k \in keywords : includes(text, k)})

\* the loop of fallbackClassification over Object.entries(keywordPatterns)
RECURSIVE bestCategoryLoop(_, _, _, _)
bestCategoryLoop(text, i, bestCategory, maxMatches) ==
    IF i > Len(keywordPatternsOrder)
    THEN [bestCategory |-> bestCategory, maxMatches |-> maxMatches]
    ELSE LET category == keywordPatternsOrder[i]
             matches == matchCount(text, keywordPatterns(category))
         IN  IF matches > maxMatches
             THEN bestCategoryLoop(text, i + 1, category, matches)
             ELSE bestCategoryLoop(text, i + 1, bestCategory, maxMatches)

\* the loop of fallbackClassification over Object.entries(priorityKeywords)
RECURSIVE priorityLoop(_, _, _, _)
priorityLoop(text, i, priority, priorityScore) ==
    IF i > Len(priorityKeywordsOrder)
    THEN priority
    ELSE LET level == priorityKeywordsOrder[i]
             matches == matchCount(text, priorityKeywords(level))
         IN  IF matches > priorityScore
             THEN priorityLoop(text, i + 1, level, matches)
             ELSE priorityLoop(text, i + 1, priority, priorityScore)

fallbackClassification(text) ==
    LET best == bestCategoryLoop(text, 1, "Other", 0)
        priority == priorityLoop(text, 1, "medium", 0)
        department == categoryDepartmentMap[best.bestCategory]
        confidence == IF best.maxMatches > 0
                      THEN Min(30 + best.maxMatches * 10, 80)
                      ELSE 20
    IN  [category |-> best.bestCategory, department |-> department,
         priority |-> priority, confidence |-> confidence,
         model |-> "keyword-fallback"]

\* isValidClassification asking for an in-vocabulary category as well
isValidClassificationStrict(ai) ==
    /\ ai.shape = "object"
    /\ ai.category.t = "string"
    /\ ai.category.s \in categories
    /\ ai.department.t = "string"
    /\ ai.priority.t = "string"
    /\ ai.confidence.t \in {"number", "undefined"}

\* typeof checks on the parsed reply; a reply that is null or an array has
\* no string fields
isValidClassification(ai) ==
    /\ ai.shape = "object"
    /\ ai.category.t = "string"
    /\ ai.department.t = "string"
    /\ ai.priority.t = "string"
    /\ ai.confidence.t \in {"number", "undefined"}

\* JSON.parse(text) of the whole reply: throws on prose and on JSON wrapped
\* in prose or in a code fence
parsesWhole(ai) == ai.shape # "prose" /\ ~ai.wrapped

\* ok = FALSE: the promise rejects
aiClassification(ai) ==
    IF ai.kind = "throws" \/ ~parsesWhole(ai) \/ ~isValidClassification(ai)
    THEN [ok |-> FALSE, result |-> Null]
    ELSE LET c == IF ai.confidence.t = "undefined" \/ ai.confidence.n = 0
                  THEN 80 ELSE ai.confidence.n
         IN  [ok |-> TRUE,
              result |-> [category |-> ai.category.s,
                          department |-> ai.department.s,
                          priority |-> ai.priority.s,
                          confidence |-> Min(Max(c, 0), 100),
                          model |-> "gemini-pro"]]

\* validateClassificationResult without the check of the category
validateClassificationResultNoCategory(result) ==
    LET category == result.category
        department == IF result.department \in departments
                      THEN result.department
                      ELSE IF category \in categories
                           THEN categoryDepartmentMap[category] ELSE "PWD"
        priority == IF result.priority \in priorities
                    THEN result.priority ELSE "medium"
        confidence == IF result.confidence < 0 \/ result.confidence > 100
                      THEN 50 ELSE result.confidence
    IN  [category |-> category, department |-> department,
         priority |-> priority, confidence |-> confidence,
         model |-> result.model]

validateClassificationResult(result) ==
    LET category == IF result.category \in categories
                    THEN result.category ELSE "Other"
        department == IF result.department \in departments
                      THEN result.department
                      ELSE categoryDepartmentMap[category]
        priority == IF result.priority \in priorities
                    THEN result.priority ELSE "medium"
        confidence == IF result.confidence < 0 \/ result.confidence > 100
                      THEN 50 ELSE result.confidence
    IN  [category |-> category, department |-> department,
         priority |-> priority, confidence |-> confidence,
         model |-> result.model]

defaultClassification ==
    [category |-> "Other", department |-> "PWD", priority |-> "medium",
     confidence |-> 10, model |-> "fallback-default"]

\* in = [text, titleIsString, ai]; title.substring throws on a title that is
\* no string, which the outer catch turns into the default result
classifyComplaint(in) ==
    IF ~in.titleIsString
    THEN defaultClassification
    ELSE LET viaAI == aiClassification(in.ai)
             result == IF in.ai.kind # "disabled" /\ viaAI.ok
                       THEN viaAI.result
                       ELSE fallbackClassification(in.text)
         IN  validateClassificationResult(result)

(***************************************************************************)
(* AIClassificationService, CommonJS generation.                           *)
(***************************************************************************)
categoriesCjs ==
    {"Road and Infrastructure", "Water Supply", "Electricity",
     "Sanitation and Waste Management", "Traffic and Transportation",
     "Public Safety", "Health Services", "Education", "Parks and Recreation",
     "Revenue and Tax", "Municipal Services", "Other"}

departmentsCjs ==
    {"PWD", "Water Works", "Electricity", "Sanitation", "Traffic Police",
     "Municipal Corporation", "Health Department", "Education",
     "Fire Department", "Parks and Gardens", "Revenue Department",
     "IT Department", "Other"}

prioritiesCjs == {"low", "medium", "high", "critical"}

categoryToDepartment ==
    [c \in categoriesCjs |->
        CASE c = "Road and Infrastructure" -> "PWD"
          [] c = "Water Supply" -> "Water Works"
          [] c = "Electricity" -> "Electricity"
          [] c = "Sanitation and Waste Management" -> "Sanitation"
          [] c = "Traffic and Transportation" -> "Traffic Police"
          [] c = "Public Safety" -> "Municipal Corporation"
          [] c = "Health Services" -> "Health Department"
          [] c = "Education" -> "Education"
          [] c = "Parks and Recreation" -> "Parks and Gardens"
          [] c = "Revenue and Tax" -> "Revenue Department"
          [] c = "Municipal Services" -> "Municipal Corporation"
          [] c = "Other" -> "Other"]

\* Object.entries(keywordMapping), in insertion order
keywordMapping ==
    << [keyword |-> "road", category |-> "Road and Infrastructure", priority |-> "medium"],
       [keyword |-> "pothole", category |-> "Road and Infrastructure", priority |-> "high"],
       [keyword |-> "water", category |-> "Water Supply", priority |-> "high"],
       [keyword |-> "leak", category |-> "Water Supply", priority |-> "high"],
       [keyword |-> "electricity", category |-> "Electricity", priority |-> "high"],
       [keyword |-> "power", category |-> "Electricity", priority |-> "high"],
       [keyword |-> "garbage", category |-> "Sanitation and Waste Management", priority |-> "medium"],
       [keyword |-> "waste", category |-> "Sanitation and Waste Management", priority |-> "medium"],
       [keyword |-> "traffic", category |-> "Traffic and Transportation", priority |-> "medium"],
       [keyword |-> "signal", category |-> "Traffic and Transportation", priority |-> "medium"],
       [keyword |-> "fire", category |-> "Public Safety", priority |-> "critical"],
       [keyword |-> "emergency", category |-> "Public Safety", priority |-> "critical"],
       [keyword |-> "hospital", category |-> "Health Services", priority |-> "high"],
       [keyword |-> "medical", category |-> "Health Services", priority |-> "high"],
       [keyword |-> "school", category |-> "Education", priority |-> "medium"],
       [keyword |-> "park", category |-> "Parks and Recreation", priority |-> "low"],
       [keyword |-> "tax", category |-> "Revenue and Tax", priority |-> "low"],
       [keyword |-> "property", category |-> "Revenue and Tax", priority |-> "low"] >>

\* the loop of fallbackClassification: the first keyword found wins (break)
RECURSIVE bestMatchLoop(_, _)
bestMatchLoop(text, i) ==
    IF i > Len(keywordMapping)
    THEN [category |-> "Other", priority |-> "medium", confidence |-> 30]
    ELSE IF includes(text, keywordMapping[i].keyword)
         THEN [category |-> keywordMapping[i].category,
               priority |-> keywordMapping[i].priority,
               confidence |-> 70]
         ELSE bestMatchLoop(text, i + 1)

fallbackClassificationCjs(text) ==
    LET bestMatch == bestMatchLoop(text, 1)
    IN  [category |-> bestMatch.category,
         department |-> categoryToDepartment[bestMatch.category],
         priority |-> bestMatch.priority,
         confidence |-> bestMatch.confidence]

\* text.match(/\{[\s\S]*\}/): only a reply holding a JSON object matches
matchesObject(ai) == ai.shape = "object"

\* aiClassification (CommonJS) without the upper limit on confidence
aiClassificationCjsNoLimit(ai) ==
    IF ai.kind = "throws" \/ ~matchesObject(ai)
    THEN [ok |-> FALSE, result |-> Null]
    ELSE LET category == IF ai.category.t = "string" /\ ai.category.s \in categoriesCjs
                         THEN ai.category.s ELSE "Other"
             department == IF ai.department.t = "string"
                              /\ ai.department.s \in departmentsCjs
                           THEN ai.department.s
                           ELSE categoryToDepartment[category]
             priority == IF ai.priority.t = "string" /\ ai.priority.s \in prioritiesCjs
                         THEN ai.priority.s ELSE "medium"
             confidence == IF ai.confidence.t # "number" \/ ai.confidence.n < 0
                           THEN 80 ELSE ai.confidence.n
         IN  [ok |-> TRUE,
              result |-> [category |-> category, department |-> department,
                          priority |-> priority, confidence |-> confidence]]

\* ok = FALSE: the promise rejects
aiClassificationCjs(ai) ==
    IF ai.kind = "throws" \/ ~matchesObject(ai)
    THEN [ok |-> FALSE, result |-> Null]
    ELSE LET category == IF ai.category.t = "string" /\ ai.category.s \in categoriesCjs
                         THEN ai.category.s ELSE "Other"
             department == IF ai.department.t = "string"
                              /\ ai.department.s \in departmentsCjs
                           THEN ai.department.s
                           ELSE categoryToDepartment[category]
             priority == IF ai.priority.t = "string" /\ ai.priority.s \in prioritiesCjs
                         THEN ai.priority.s ELSE "medium"
             confidence == IF ai.confidence.t # "number" \/ ai.confidence.n < 0
                              \/ ai.confidence.n > 100
                           THEN 80 ELSE ai.confidence.n
         IN  [ok |-> TRUE,
              result |-> [category |-> category, department |-> department,
                          priority |-> priority, confidence |-> confidence]]

classifyComplaintCjs(in) ==
    LET viaAI == aiClassificationCjs(in.ai)
    IN  IF in.ai.kind # "disabled" /\ viaAI.ok
        THEN viaAI.result
        ELSE fallbackClassificationCjs(in.text)

(***************************************************************************)
(* The classifier's inputs: a text over Vocabulary, a title that is or is  *)
(* not a string, and a behaviour of the external AI call.                  *)
(***************************************************************************)
NoReply == [wrapped |-> FALSE, shape |-> "prose", category |-> JUndef,
            department |-> JUndef, priority |-> JUndef, confidence |-> JUndef]

AIDisabled == [kind |-> "disabled"] @@ NoReply
AIThrows == [kind |-> "throws"] @@ NoReply

\* replies that hold no JSON object: prose, JSON null, a JSON array
AIShapeless ==
    {[kind |-> "reply"] @@ [NoReply EXCEPT !.shape = sh, !.wrapped = w] :
        sh \in {"prose", "null", "array"}, w \in BOOLEAN}

ReplyCategories ==
    {JStr("Electricity"), JStr("Fire Safety"), JStr("Public Safety"),
     JStr("Bogus"), JNum(7), JUndef}
ReplyDepartments ==
    {JStr("Fire Department"), JStr("Revenue"), JStr("Bogus"), JUndef}
ReplyPriorities == {JStr("critical"), JStr("urgent"), JUndef}
ReplyConfidences ==
    {JUndef, JStr("high"), JNum(0 - 50), JNum(0), JNum(95), JNum(150)}

AIObjects ==
    {[kind |-> "reply", wrapped |-> w, shape |-> "object", category |-> c,
      department |-> d, priority |-> p, confidence |-> f] :
        w \in BOOLEAN, c \in ReplyCategories, d \in ReplyDepartments,
        p \in ReplyPriorities, f \in ReplyConfidences}

\* the outcomes that hold no JSON object: the keyword fallback decides
AIFailures == {AIDisabled, AIThrows} \cup AIShapeless

\* the texts the replies holding a JSON object are combined with
SampleTexts == {{}, {"fire", "emergency"}, {"road", "serious"}}

NoCalls == [v \in {} |-> Null]

IdleInput == [text |-> {}, titleIsString |-> TRUE, ai |-> AIDisabled]

IdleCls == /\ clsInput = IdleInput
           /\ clsResult = NoCalls

InitClassify ==
    /\ \/ \E t \in SUBSET Vocabulary, s \in BOOLEAN, a \in AIFailures :
             clsInput = [text |-> t, titleIsString |-> s, ai |-> a]
       \/ \E t \in SampleTexts, s \in BOOLEAN, a \in AIObjects :
             clsInput = [text |-> t, titleIsString |-> s, ai |-> a]
    /\ clsResult = NoCalls

\* a call of the ES-module service's classifyComplaint
Classify ==
    /\ "esm" \notin DOMAIN clsResult
    /\ clsResult' = clsResult @@ ("esm" :> classifyComplaint(clsInput))
    /\ UNCHANGED clsInput

\* a call of the CommonJS service's classifyComplaint
ClassifyCjs ==
    /\ "cjs" \notin DOMAIN clsResult
    /\ clsResult' = clsResult @@ ("cjs" :> classifyComplaintCjs(clsInput))
    /\ UNCHANGED clsInput

(***************************************************************************)
(* The SLA sub-document of the Complaint model (ES-module generation).     *)
(***************************************************************************)
TicksPerHour == 5
MaxTime == 14

\* slaMatrix: department -> priority -> hours
matrixDepartments ==
    {"PWD", "Water Works", "Electricity", "Sanitation", "Traffic Police",
     "Health Department", "Education", "Fire Department", "Revenue",
     "Town Planning", "Horticulture", "Street Lighting"}

slaRow(critical, high, medium, low) ==
    [critical |-> critical, high |-> high, medium |-> medium, low |-> low]

\* slaMatrix with the critical and high hours of one row typed alike
slaMatrixFlat ==
    [d \in matrixDepartments |->
        CASE d = "PWD" -> slaRow(4, 24, 72, 168)
          [] d = "Water Works" -> slaRow(2, 8, 48, 120)
          [] d = "Electricity" -> slaRow(1, 4, 24, 72)
          [] d = "Sanitation" -> slaRow(6, 24, 72, 168)
          [] d = "Traffic Police" -> slaRow(2, 8, 48, 120)
          [] d = "Health Department" -> slaRow(2, 12, 48, 120)
          [] d = "Education" -> slaRow(24, 72, 168, 336)
          [] d = "Fire Department" -> slaRow(2, 2, 12, 48)
          [] d = "Revenue" -> slaRow(24, 72, 168, 336)
          [] d = "Town Planning" -> slaRow(48, 168, 336, 720)
          [] d = "Horticulture" -> slaRow(12, 48, 168, 336)
          [] d = "Street Lighting" -> slaRow(4, 24, 72, 168)]

slaMatrix ==
    [d \in matrixDepartments |->
        CASE d = "PWD" -> slaRow(4, 24, 72, 168)
          [] d = "Water Works" -> slaRow(2, 8, 48, 120)
          [] d = "Electricity" -> slaRow(1, 4, 24, 72)
          [] d = "Sanitation" -> slaRow(6, 24, 72, 168)
          [] d = "Traffic Police" -> slaRow(2, 8, 48, 120)
          [] d = "Health Department" -> slaRow(2, 12, 48, 120)
          [] d = "Education" -> slaRow(24, 72, 168, 336)
          [] d = "Fire Department" -> slaRow(1, 2, 12, 48)
          [] d = "Revenue" -> slaRow(24, 72, 168, 336)
          [] d = "Town Planning" -> slaRow(48, 168, 336, 720)
          [] d = "Horticulture" -> slaRow(12, 48, 168, 336)
          [] d = "Street Lighting" -> slaRow(4, 24, 72, 168)]

\* calculateSLA at the instant t (Date.now())
calculateSLA(department, category, priority, t) ==
    LET departmentSLA == IF department \in DOMAIN slaMatrix
                         THEN slaMatrix[department] ELSE slaMatrix["PWD"]
        hours == IF priority \in DOMAIN departmentSLA
                 THEN departmentSLA[priority] ELSE departmentSLA["medium"]
    IN  [hoursAllocated |-> hours,
         deadline |-> t + hours * TicksPerHour,
         status |-> "safe"]

\* updateSLAStatus with now >= deadline for the breach
updateSLAStatusAtDeadline(sla, t) ==
    IF t >= sla.deadline
    THEN "breach"
    ELSE IF 5 * (sla.deadline - t) <= sla.hoursAllocated * TicksPerHour
         THEN "warning"
         ELSE "safe"

\* updateSLAStatus at the instant t (new Date()): the new sla.status.
\* hoursRemaining <= hoursAllocated * 0.2 is compared without fractions.
updateSLAStatus(sla, t) ==
    IF t > sla.deadline
    THEN "breach"
    ELSE IF 5 * (sla.deadline - t) <= sla.hoursAllocated * TicksPerHour
         THEN "warning"
         ELSE "safe"

\* departments a caller can name: those of the matrix and two it lacks
CalcDepartments == matrixDepartments \cup {"Municipal Corporation", "Other"}
CalcPriorities == {"critical", "high", "medium", "low"}

NoCalc == [department |-> "", by |-> [p \in {} |-> Null]]
NoDoc == [exists |-> FALSE, status |-> "new",
          sla |-> [hoursAllocated |-> 1, deadline |-> 0, status |-> "safe"]]
NoView == [op |-> "none", status |-> "safe", fresh |-> FALSE]

IdleCalc == slaCalc = NoCalc
IdleSla == /\ now = 0
           /\ doc = NoDoc
           /\ view = NoView

\* time passes
Tick ==
    /\ now < MaxTime
    /\ now' = now + 1
    /\ view' = [view EXCEPT !.fresh = FALSE]
    /\ UNCHANGED <<doc, slaCalc, clsVars, appVars, authVars>>

\* calculateSLA is called for one department and each priority at once
CalculateSLA(department) ==
    /\ slaCalc' = [department |-> department,
                   by |-> [p \in CalcPriorities |->
                              calculateSLA(department, "Other", p, now)]]
    /\ UNCHANGED <<slaVars, clsVars, appVars, authVars>>

(***************************************************************************)
(* Users, complaints and the middleware in front of the complaint routes.  *)
(***************************************************************************)
CitizenIds == {"A", "B"}
StaffIds == {"off", "mit", "adm"}
UserIds == CitizenIds \cup StaffIds
Emails == {"e1", "e2"}

MaxTimeline == 6
MaxRemarks == 1

ComplaintIds == {"c1"}

NoUser == [registered |-> FALSE, email |-> "", role |-> "citizen",
           department |-> "", isActive |-> TRUE]

InitUsers ==
    [u \in UserIds |->
        CASE u = "A" -> [NoUser EXCEPT !.registered = TRUE, !.email = "e1"]
          [] u = "B" -> NoUser
          [] u = "off" -> [registered |-> TRUE, email |-> "off@imc", role |-> "officer",
                           department |-> "PWD", isActive |-> TRUE]
          [] u = "mit" -> [registered |-> TRUE, email |-> "mit@imc", role |-> "mitra",
                           department |-> "PWD", isActive |-> TRUE]
          [] u = "adm" -> [registered |-> TRUE, email |-> "adm@imc", role |-> "admin",
                           department |-> "", isActive |-> TRUE]]

NoComplaint ==
    [exists |-> FALSE, status |-> "none",
     citizen |-> [userId |-> "", email |-> ""],
     department |-> "", priority |-> "",
     assignedMitra |-> "", assignedOfficer |-> "",
     citizenFeedback |-> [rating |-> 0, satisfied |-> FALSE],
     escalation |-> [level |-> 0],
     resolution |-> [resolvedBy |-> ""],
     sla |-> [escalationLevel |-> 0],
     timeline |-> 0, remarks |-> 0]

NoRes == [op |-> "none", user |-> "", cid |-> "", target |-> "",
          satisfied |-> FALSE, code |-> 0, complaint |-> "", notice |-> "none",
          list |-> {}]

IdleApp == /\ users = InitUsers
           /\ complaints = [c \in ComplaintIds |-> NoComplaint]
           /\ res = NoRes

\* protect: the token names a user that exists and is active
protect(u) == users[u].registered /\ users[u].isActive

\* authorize(...roles)
authorize(roles, u) == users[u].role \in roles

\* authorizeComplaintAccess of middleware/auth.js (CommonJS): hasAccess
authorizeComplaintAccessCjs(u, complaint) ==
    LET user == users[u]
    IN  CASE user.role = "admin" -> TRUE
          [] user.role = "citizen" -> complaint.citizen.userId = u
          [] user.role = "officer" ->
                \/ complaint.department = user.department
                \/ complaint.assignedOfficer = u
          [] user.role = "mitra" ->
                /\ complaint.department = user.department
                /\ complaint.assignedMitra = u
          [] OTHER -> FALSE

\* authorizeComplaintAccess of the ES-module middleware: hasAccess
authorizeComplaintAccess(u, complaint) ==
    LET user == users[u]
    IN  CASE user.role = "admin" -> TRUE
          [] user.role = "citizen" -> complaint.citizen.email = user.email
          [] user.role = "officer" -> complaint.department = user.department
          [] user.role = "mitra" ->
                \/ complaint.assignedMitra = u
                \/ complaint.department = user.department
          [] OTHER -> FALSE

\* Complaint document methods used by the controller; timeline and remarks
\* are kept as the number of entries pushed
addTimelineEntry(complaint, action) ==
    [complaint EXCEPT !.timeline = @ + 1]

addRemark(complaint) == [complaint EXCEPT !.remarks = @ + 1]

(***************************************************************************)
(* The complaint controller (CommonJS).  A handler is an operator from the *)
(* loaded document to the saved one; the route in front of it is an action *)
(* that answers with the first failing step of the chain.                  *)
(***************************************************************************)
Statuses ==
    {"new", "assigned", "in_progress", "resolved", "rejected", "escalated", "closed"}

\* validTransitions with resolved slipped into the row of new
validTransitionsLoose ==
    [s \in Statuses \ {"closed"} |->
        CASE s = "new" -> {"assigned", "rejected", "resolved"}
          [] s = "assigned" -> {"in_progress", "rejected"}
          [] s = "in_progress" -> {"resolved", "escalated"}
          [] s = "resolved" -> {"closed"}
          [] s = "rejected" -> {"new", "escalated"}
          [] s = "escalated" -> {"assigned", "in_progress", "resolved"}]

\* validTransitions of updateComplaintStatus; closed has no row
validTransitions ==
    [s \in Statuses \ {"closed"} |->
        CASE s = "new" -> {"assigned", "rejected"}
          [] s = "assigned" -> {"in_progress", "rejected"}
          [] s = "in_progress" -> {"resolved", "escalated"}
          [] s = "resolved" -> {"closed"}
          [] s = "rejected" -> {"new", "escalated"}
          [] s = "escalated" -> {"assigned", "in_progress", "resolved"}]

\* the lookup letting a status without a row through
isValidTransitionNoRow(from, to) ==
    from \notin DOMAIN validTransitions \/ to \in validTransitions[from]

\* validTransitions[complaint.status]?.includes(status)
isValidTransition(from, to) ==
    from \in DOMAIN validTransitions /\ to \in validTransitions[from]

\* updateStatusValidation: body('status').isIn([...]), body('remarks').notEmpty()
updateStatusValidation(status, remarks) ==
    /\ status \in {"assigned", "in_progress", "resolved", "rejected", "escalated"}
    /\ remarks # ""

\* feedbackValidation: rating is an integer in 1..5 (satisfied is a boolean
\* in every request of the model)
feedbackValidation(rating) == rating \in 1 .. 5

\* createComplaint: Complaint.create and the ai_classified timeline entry.
\* citizen holds both what the CommonJS controller stores (the user's id)
\* and what the ES-module schema stores (a copy of the user's e-mail address
\* taken when the complaint is created).
createComplaint(u, text) ==
    LET classified ==
            classifyComplaintCjs([text |-> text, titleIsString |-> TRUE,
                                  ai |-> AIDisabled])
        complaint ==
            [NoComplaint EXCEPT
                !.exists = TRUE,
                !.status = "new",
                !.citizen = [userId |-> u, email |-> users[u].email],
                !.department = classified.department,
                !.priority = classified.priority]
    IN  addTimelineEntry(complaint, "ai_classified")

\* updateComplaintStatus past its checks
updateComplaintStatus(complaint, u, status) ==
    LET changed == [complaint EXCEPT !.status = status]
        resolved == IF status = "resolved"
                    THEN [changed EXCEPT !.resolution = [resolvedBy |-> u]]
                    ELSE changed
    IN  addRemark(addTimelineEntry(resolved, status))

\* assignComplaintToMitra past its checks
assignComplaintToMitra(complaint, u, mitraId, remarks) ==
    LET assigned == [complaint EXCEPT
                        !.assignedMitra = mitraId,
                        !.assignedOfficer = u,
                        !.status = IF @ = "new" THEN "assigned" ELSE @]
        logged == addTimelineEntry(assigned, "assigned_mitra")
    IN  IF remarks # "" THEN addRemark(logged) ELSE logged

\* submitFeedback without the increment of escalation.level
submitFeedbackNoLevel(complaint, u, rating, satisfied) ==
    LET fed == [complaint EXCEPT
                   !.citizenFeedback = [rating |-> rating, satisfied |-> satisfied]]
    IN  IF satisfied
        THEN addTimelineEntry([fed EXCEPT !.status = "closed"], "closed")
        ELSE addTimelineEntry([fed EXCEPT !.status = "escalated"], "escalated")

\* submitFeedback past its checks
submitFeedback(complaint, u, rating, satisfied) ==
    LET fed == [complaint EXCEPT
                   !.citizenFeedback = [rating |-> rating, satisfied |-> satisfied]]
    IN  IF satisfied
        THEN addTimelineEntry([fed EXCEPT !.status = "closed"], "closed")
        ELSE addTimelineEntry(
                 [fed EXCEPT !.status = "escalated",
                             !.escalation.level = @ + 1],
                 "escalated")

(***************************************************************************)
(* Notifications.  What sendEmail and sendSMS do during a request is an    *)
(* input of the handler; each notify operator is the try/catch around the  *)
(* sends: which messages went out and whether the error leaves the block.  *)
(***************************************************************************)
Deliveries == {"sent", "emailFails", "smsFails", "bothFail"}

\* a handler that sends an SMS only; one whose SMS follows its e-mail in the
\* same try block and is not attempted when the e-mail fails
SmsDeliveries == {"sent", "smsFails"}
CreatedDeliveries == {"sent", "emailFails", "smsFails"}

emailThrows(delivery) == delivery \in {"emailFails", "bothFail"}
smsThrows(delivery) == delivery \in {"smsFails", "bothFail"}

\* createComplaint step 9: sendEmail, then sendSMS, in one try block
notifyCreated(delivery) ==
    [email |-> ~emailThrows(delivery),
     sms |-> ~emailThrows(delivery) /\ ~smsThrows(delivery),
     escaped |-> FALSE]

\* the try block with the errors of the sends let out
notifyStatusUpdateUncaught(delivery) ==
    [email |-> FALSE, sms |-> ~smsThrows(delivery), escaped |-> smsThrows(delivery)]

\* updateComplaintStatus: sendSMS to the citizen in a try block
notifyStatusUpdate(delivery) ==
    [email |-> FALSE, sms |-> ~smsThrows(delivery), escaped |-> FALSE]

\* assignComplaintToMitra: sendSMS to the mitra in a try block
notifyAssigned(delivery) ==
    [email |-> FALSE, sms |-> ~smsThrows(delivery), escaped |-> FALSE]

\* register: sendSMS in a try block, then sendEmail in one of its own
notifyRegistered(delivery) ==
    [email |-> ~emailThrows(delivery), sms |-> ~smsThrows(delivery),
     escaped |-> FALSE]

\* the answer of a handler whose state change is saved and whose
\* notifications went as n: an error that left the block ends in a 500
afterNotification(n, success) == IF n.escaped THEN 500 ELSE success

Answer(op, u, c, code) ==
    [NoRes EXCEPT !.op = op, !.user = u, !.cid = c, !.code = code]

OtherVars == <<slaCalc, clsVars, slaVars, authVars>>

\* an id no complaint has yet, "" when the collection is full
FreeId ==
    IF \E c \in ComplaintIds : ~complaints[c].exists
    THEN CHOOSE c \in ComplaintIds : ~complaints[c].exists
    ELSE ""

CreateTexts == {{"road"}, {"hospital"}}

\* POST /api/complaints
PostComplaint(u, text) ==
    \E delivery \in CreatedDeliveries :
       LET code == IF ~protect(u) THEN 401
                   ELSE IF ~authorize({"citizen"}, u) THEN 403
                   ELSE 201
       IN  /\ (code = 201 => FreeId # "")
           /\ complaints' = IF code = 201
                            THEN [complaints EXCEPT ![FreeId] = createComplaint(u, text)]
                            ELSE complaints
           /\ res' = IF code = 201
                     THEN [Answer("createComplaint", u, FreeId,
                                  afterNotification(notifyCreated(delivery), 201))
                              EXCEPT !.notice = delivery]
                     ELSE Answer("createComplaint", u, "", code)
           /\ UNCHANGED <<users, OtherVars>>

\* the chain protect, authorize(roles), authorizeComplaintAccess (CommonJS):
\* 0 when the request reaches the handler
Chain(roles, u, c) ==
    IF ~protect(u) THEN 401
    ELSE IF ~authorize(roles, u) THEN 403
    ELSE IF c \notin ComplaintIds \/ ~complaints[c].exists THEN 404
    ELSE IF ~authorizeComplaintAccessCjs(u, complaints[c]) THEN 403
    ELSE 0

AllRoles == {"citizen", "officer", "mitra", "admin"}

\* GET /api/complaints/:id
GetComplaint(u, c) ==
    LET chain == Chain(AllRoles, u, c)
        code == IF chain # 0 THEN chain ELSE 200
    IN  /\ res' = [Answer("getComplaint", u, c, code) EXCEPT
                      !.complaint = IF code = 200 THEN c ELSE ""]
        /\ UNCHANGED <<users, complaints, OtherVars>>

\* GET /api/complaints/:id behind the ES-module authorizeComplaintAccess
GetComplaintEsm(u, c) ==
    LET code == IF ~protect(u) THEN 401
                ELSE IF c \notin ComplaintIds \/ ~complaints[c].exists THEN 404
                ELSE IF ~authorizeComplaintAccess(u, complaints[c]) THEN 403
                ELSE 200
    IN  /\ res' = [Answer("getComplaintEsm", u, c, code) EXCEPT
                      !.complaint = IF code = 200 THEN c ELSE ""]
        /\ UNCHANGED <<users, complaints, OtherVars>>

\* PUT /api/complaints/:id/status
PutStatus(u, c, status, remarks) ==
    LET chain == Chain({"officer", "mitra", "admin"}, u, c)
        code == IF chain # 0 THEN chain
                ELSE IF ~updateStatusValidation(status, remarks) THEN 400
                ELSE IF ~isValidTransition(complaints[c].status, status) THEN 400
                ELSE 200
    IN  /\ (code = 200 => complaints[c].timeline < MaxTimeline)
        /\ complaints' = IF code = 200
                         THEN [complaints EXCEPT
                                  ![c] = updateComplaintStatus(@, u, status)]
                         ELSE complaints
        /\ \E delivery \in SmsDeliveries :
              res' = IF code = 200
                     THEN [Answer("updateComplaintStatus", u, c,
                                  afterNotification(notifyStatusUpdate(delivery), 200))
                              EXCEPT !.target = status, !.notice = delivery]
                     ELSE [Answer("updateComplaintStatus", u, c, code) EXCEPT
                              !.target = status]
        /\ UNCHANGED <<users, OtherVars>>

\* PUT /api/complaints/:id/assign
PutAssign(u, c, mitraId, remarks) ==
    LET chain == Chain({"officer", "admin"}, u, c)
        mitra == users[mitraId]
        code == IF chain # 0 THEN chain
                ELSE IF ~mitra.registered \/ mitra.role # "mitra" \/ ~mitra.isActive
                     THEN 400
                ELSE IF mitra.department # complaints[c].department THEN 400
                ELSE 200
    IN  /\ (code = 200 => complaints[c].timeline < MaxTimeline)
        /\ complaints' = IF code = 200
                         THEN [complaints EXCEPT
                                  ![c] = assignComplaintToMitra(@, u, mitraId, remarks)]
                         ELSE complaints
        /\ \E delivery \in SmsDeliveries :
              res' = IF code = 200
                     THEN [Answer("assignComplaintToMitra", u, c,
                                  afterNotification(notifyAssigned(delivery), 200))
                              EXCEPT !.target = mitraId, !.notice = delivery]
                     ELSE [Answer("assignComplaintToMitra", u, c, code) EXCEPT
                              !.target = mitraId]
        /\ UNCHANGED <<users, OtherVars>>

(***************************************************************************)
(* getComplaints.  The Mongo query is a record of the fields it constrains *)
(* ("" for a field it leaves free).  zone, slaStatus, the dates and search *)
(* add conditions on other fields and sortBy orders the page; they are not *)
(* part of the record.                                                     *)
(***************************************************************************)
NoQuery == [citizen |-> "", department |-> "", assignedMitra |-> "",
            status |-> "", priority |-> ""]

\* the query by the caller's role
roleQuery(u) ==
    CASE users[u].role = "citizen" -> [NoQuery EXCEPT !.citizen = u]
      [] users[u].role = "officer" ->
             [NoQuery EXCEPT !.department = users[u].department]
      [] users[u].role = "mitra" -> [NoQuery EXCEPT !.assignedMitra = u]
      [] OTHER -> NoQuery

\* the filters of req.query written into the query, each over what is there
applyFilters(query, q) ==
    [query EXCEPT
        !.status = IF q.status # "" THEN q.status ELSE @,
        !.priority = IF q.priority # "" THEN q.priority ELSE @,
        !.department = IF q.department # "" THEN q.department ELSE @]

\* Complaint.find(query)
find(query) ==
    {c \in ComplaintIds :
        /\ complaints[c].exists
        /\ query.citizen # "" => complaints[c].citizen.userId = query.citizen
        /\ query.department # "" => complaints[c].department = query.department
        /\ query.assignedMitra # "" =>
               complaints[c].assignedMitra = query.assignedMitra
        /\ query.status # "" => complaints[c].status = query.status
        /\ query.priority # "" => complaints[c].priority = query.priority}

\* GET /api/complaints
GetComplaints(u, q) ==
    LET code == IF ~protect(u) THEN 401
                ELSE IF users[u].role \notin {"citizen", "officer", "mitra", "admin"}
                THEN 403
                ELSE 200
    IN  /\ res' = [Answer("getComplaints", u, "", code) EXCEPT
                      !.target = q.department,
                      !.list = IF code = 200
                               THEN find(applyFilters(roleQuery(u), q))
                               ELSE {}]
        /\ UNCHANGED <<users, complaints, OtherVars>>

\* POST /api/complaints/:id/remarks
PostRemark(u, c, text) ==
    LET chain == Chain(AllRoles, u, c)
        code == IF chain # 0 THEN chain
                ELSE IF text = "" THEN 400
                ELSE 200
    IN  /\ (code = 200 => complaints[c].remarks < MaxRemarks)
        /\ complaints' = IF code = 200
                         THEN [complaints EXCEPT ![c] = addRemark(@)]
                         ELSE complaints
        /\ res' = Answer("addRemark", u, c, code)
        /\ UNCHANGED <<users, OtherVars>>

Ratings == {0, 1, 5}

\* POST /api/complaints/:id/feedback
PostFeedback(u, c, rating, satisfied) ==
    LET chain == Chain({"citizen"}, u, c)
        code == IF chain # 0 THEN chain
                ELSE IF ~feedbackValidation(rating) THEN 400
                ELSE IF complaints[c].status # "resolved" THEN 400
                ELSE IF complaints[c].citizenFeedback.rating # 0 THEN 400
                ELSE 200
    IN  /\ (code = 200 => complaints[c].timeline < MaxTimeline)
        /\ complaints' = IF code = 200
                         THEN [complaints EXCEPT
                                  ![c] = submitFeedback(@, u, rating, satisfied)]
                         ELSE complaints
        /\ res' = [Answer("submitFeedback", u, c, code) EXCEPT
                      !.satisfied = satisfied, !.target = IF rating = 0 THEN "invalid" ELSE "valid"]
        /\ UNCHANGED <<users, OtherVars>>

(***************************************************************************)
(* The status-writing methods of the Complaint model (ES-module            *)
(* generation).  No handler calls them; each ends in save(), whose second  *)
(* pre-save hook pushes one more timeline entry when the status changed.   *)
(***************************************************************************)
preSaveTimeline(before, after) ==
    IF after.status # before.status
    THEN [after EXCEPT !.timeline = @ + 1]
    ELSE after

assignToMitra(complaint, mitraId) ==
    LET assigned == [complaint EXCEPT !.assignedMitra = mitraId,
                                      !.status = "assigned"]
    IN  preSaveTimeline(complaint, addTimelineEntry(assigned, "assigned"))

updateStatus(complaint, newStatus, remarks) ==
    LET changed == [complaint EXCEPT !.status = newStatus]
        logged == preSaveTimeline(complaint, addTimelineEntry(changed, newStatus))
    IN  IF remarks # "" THEN addRemark(logged) ELSE logged

\* level = 0 stands for the default null
escalate(complaint, level) ==
    LET currentLevel == complaint.sla.escalationLevel + 1
        escalationLevel == IF level # 0 THEN level ELSE currentLevel
        escalated == [complaint EXCEPT
                         !.sla.escalationLevel = Min(escalationLevel, 3),
                         !.status = "escalated"]
    IN  preSaveTimeline(complaint, addTimelineEntry(escalated, "escalated"))

\* a call of one of the methods on the stored complaint c
MethodCall(op, c, target, after) ==
    /\ complaints[c].exists
    /\ after.timeline <= MaxTimeline
    /\ after.remarks <= MaxRemarks
    /\ complaints' = [complaints EXCEPT ![c] = after]
    /\ res' = [Answer(op, "", c, 0) EXCEPT !.target = target]
    /\ UNCHANGED <<users, OtherVars>>

AssignToMitra(c, mitraId) ==
    MethodCall("assignToMitra", c, mitraId, assignToMitra(complaints[c], mitraId))

UpdateStatus(c, newStatus, remarks) ==
    MethodCall("updateStatus", c, newStatus,
               updateStatus(complaints[c], newStatus, remarks))

Escalate(c, level) ==
    MethodCall("escalate", c, "", escalate(complaints[c], level))

\* some user other than u holds the e-mail address (the unique index)
EmailTaken(u, email) ==
    \E v \in UserIds \ {u} : users[v].registered /\ users[v].email = email

\* POST /api/auth/register, as a citizen
Register(u, email) ==
    LET code == IF EmailTaken(u, email) THEN 400 ELSE 201
    IN  /\ ~users[u].registered
        /\ users' = IF code = 201
                    THEN [users EXCEPT ![u] = [NoUser EXCEPT !.registered = TRUE,
                                                             !.email = email]]
                    ELSE users
        /\ \E delivery \in Deliveries :
              res' = IF code = 201
                     THEN [Answer("register", u, "",
                                  afterNotification(notifyRegistered(delivery), 201))
                              EXCEPT !.notice = delivery]
                     ELSE Answer("register", u, "", code)
        /\ UNCHANGED <<complaints, OtherVars>>

\* PUT /api/auth/users/:id with a new e-mail address, by an admin
UpdateUser(a, u, email) ==
    LET code == IF ~protect(a) THEN 401
                ELSE IF ~authorize({"admin"}, a) THEN 403
                ELSE IF ~users[u].registered THEN 404
                ELSE IF EmailTaken(u, email) THEN 400
                ELSE 200
    IN  /\ users' = IF code = 200
                    THEN [users EXCEPT ![u].email = email]
                    ELSE users
        /\ res' = [Answer("updateUser", a, "", code) EXCEPT !.target = u]
        /\ UNCHANGED <<complaints, OtherVars>>

(***************************************************************************)
(* The central error handler.  An error is its name, its code and its      *)
(* statusCode; an absent statusCode is 0, which error.statusCode || 500    *)
(* treats as absent too.  A duplicate-key error carries its keyValue and a *)
(* ValidationError its errors, as MongoDB 5 and Mongoose make them.        *)
(***************************************************************************)
ErrNames ==
    {"CastError", "ValidationError", "JsonWebTokenError", "TokenExpiredError",
     "MulterError", "ErrorResponse", "Error"}

ErrCodes ==
    {JUndef, JNum(11000), JStr("11000"), JStr("LIMIT_FILE_SIZE"),
     JStr("LIMIT_UNEXPECTED_FILE")}

ErrStatusCodes == {0, 403, 404, 429}

NoHandled ==
    [done |-> FALSE, err |-> [name |-> "Error", code |-> JUndef, statusCode |-> 0],
     status |-> 0]

IdleHandler == handled = NoHandled

\* errorHandler with a CastError answered as a bad request
errorHandlerCastAsBadRequest(err) ==
    LET copied == err.statusCode
        cast == IF err.name = "CastError" THEN 400 ELSE copied
        duplicate == IF err.code = JNum(11000) THEN 400 ELSE cast
        validation == IF err.name = "ValidationError" THEN 400 ELSE duplicate
        jwt == IF err.name = "JsonWebTokenError" THEN 401 ELSE validation
        expired == IF err.name = "TokenExpiredError" THEN 401 ELSE jwt
        fileSize == IF err.code = JStr("LIMIT_FILE_SIZE") THEN 400 ELSE expired
        unexpected == IF err.code = JStr("LIMIT_UNEXPECTED_FILE") THEN 400
                      ELSE fileSize
        rateLimit == IF err.statusCode = 429 THEN 429 ELSE unexpected
    IN  IF rateLimit # 0 THEN rateLimit ELSE 500

\* errorHandler: the status code it answers with.  error starts as a copy
\* of err and each check that matches replaces it, the checks not being
\* exclusive of one another
errorHandler(err) ==
    LET copied == err.statusCode
        cast == IF err.name = "CastError" THEN 404 ELSE copied
        duplicate == IF err.code = JNum(11000) THEN 400 ELSE cast
        validation == IF err.name = "ValidationError" THEN 400 ELSE duplicate
        jwt == IF err.name = "JsonWebTokenError" THEN 401 ELSE validation
        expired == IF err.name = "TokenExpiredError" THEN 401 ELSE jwt
        fileSize == IF err.code = JStr("LIMIT_FILE_SIZE") THEN 400 ELSE expired
        unexpected == IF err.code = JStr("LIMIT_UNEXPECTED_FILE") THEN 400
                      ELSE fileSize
        rateLimit == IF err.statusCode = 429 THEN 429 ELSE unexpected
    IN  IF rateLimit # 0 THEN rateLimit ELSE 500

\* next(err) reaches the handler
HandleError(err) ==
    /\ handled' = [done |-> TRUE, err |-> err, status |-> errorHandler(err)]
    /\ UNCHANGED <<slaCalc, clsVars, slaVars, appVars, credVars, extVars>>

(***************************************************************************)
(* Accounts.  One user's credentials as the users collection stores them.  *)
(* Times are minutes; an unset date is 0 (every date the code sets is      *)
(* later than 0, and a passwordChangedAt of 0 rejects no token, as an      *)
(* unset one).  A token is its iat; it stays unexpired for the seven days  *)
(* of JWT_EXPIRE, longer than MaxClock.                                    *)
(***************************************************************************)
AuthUser == "A"
MaxLoginAttempts == 5
LockMinutes == 30
ResetMinutes == 10
MinutesPerTick == 10
MaxClock == 50
MaxResets == 2
Requests == {1, 2}

Passwords == {"p0", "p1"}

\* bcrypt.hash and bcrypt.compare
bcryptHash(password) == <<"bcrypt", password>>
NoHash == <<"bcrypt", "">>

\* sha256 of a reset token: no token is the hash of a token
sha256(token) == token + MaxResets

InitAccount ==
    [password |-> bcryptHash("p0"), loginAttempts |-> 0, lockUntil |-> 0,
     passwordChangedAt |-> 0, resetPasswordToken |-> 0, resetPasswordExpire |-> 0]

NoAuthRes ==
    [op |-> "none", code |-> 0, token |-> 0, signed |-> FALSE, at |-> 0,
     entered |-> "", user |-> InitAccount, mailed |-> FALSE]

NoFlight == [stage |-> "idle", user |-> InitAccount]

IdleCred ==
    /\ account = InitAccount
    /\ clock = 0
    /\ jwts = {}
    /\ resetIssued = 0
    /\ inflight = [r \in Requests |-> NoFlight]
    /\ authRes = NoAuthRes

\* the phone numbers a request can name; OtherPhone is another user's
Phones == {"n1", "n2", "n3"}
OtherPhone == "n3"
PhoneCodeMinutes == 10
MaxCodes == 2

\* the 6-digit codes Math.random can give; 0 stands for a field left unset
Codes == 1 .. MaxCodes

\* sha256 of a code: no code is the hash of a code
sha256Code(code) == code + MaxCodes

\* no user document yet
NoPhone ==
    [phoneNumber |-> "", isPhoneVerified |-> FALSE,
     phoneVerificationCode |-> 0, phoneVerificationExpires |-> 0]

\* history: the number the stored code was generated for, whether its SMS
\* was delivered, whether an admin has written isPhoneVerified, and what the
\* verification that set isPhoneVerified was presented with
NoCodeLog ==
    [number |-> "", delivered |-> FALSE, admin |-> FALSE,
     byCode |-> FALSE, byNumber |-> "", byDelivered |-> FALSE,
     byInTime |-> FALSE]

NoPhoneRes ==
    [op |-> "none", code |-> 0, phoneNumber |-> "", presented |-> 0,
     at |-> 0, before |-> NoPhone]

IdlePhone ==
    /\ phone = NoPhone
    /\ codeLog = NoCodeLog
    /\ phoneRes = NoPhoneRes

\* sensitiveOpLimit(3) of the update-password route; the window and the
\* time are in ticks
maxAttempts == 3
windowMs == 2
MaxLimitTime == 7
MaxHistory == 5

\* the keys `${req.ip}-${req.user.id}` of two clients; the requests of
\* Client are recorded
LimitKeys == {"ip1-A", "ip2-off"}
Client == "ip1-A"

\* a key the Map does not hold
NoEntry == [count |-> 0, timestamp |-> 0]

NoLimitRes == [key |-> "", code |-> 0, at |-> 0]

IdleLimit ==
    /\ attempts = [k \in LimitKeys |-> NoEntry]
    /\ limitNow = 0
    /\ limitLog = <<>>
    /\ limitRes = NoLimitRes

IdleAuth == IdleHandler /\ IdleCred /\ IdlePhone /\ IdleLimit

\* the paths of the schema with select: false
SelectFalse ==
    {"password", "loginAttempts", "lockUntil", "passwordChangedAt",
     "resetPasswordToken", "resetPasswordExpire"}

\* a query's projection: a path with select: false is loaded only when the
\* projection names it with a plus (an excluding projection such as
\* '-password' leaves the other paths with select: false out as well)
select(d, plus) ==
    [f \in DOMAIN d |->
        IF f \in SelectFalse \ plus
        THEN (IF f = "password" THEN NoHash ELSE 0)
        ELSE d[f]]

\* findByEmailWithPassword
findByEmailWithPassword(d) == select(d, {"password", "loginAttempts", "lockUntil"})

matchPassword(user, enteredPassword) == bcryptHash(enteredPassword) = user.password

\* the virtual isLocked
isLocked(user, t) == user.lockUntil # 0 /\ user.lockUntil > t

\* an update document: $inc and $set of loginAttempts (0 for none), $unset of it,
\* $set of lockUntil (0 for none) and $unset of it
NoUpdate ==
    [inc |-> 0, setAttempts |-> 0, unsetAttempts |-> FALSE, setLock |-> 0,
     unsetLock |-> FALSE]

\* updateOne: the update applied to the stored document in one step
updateOne(d, update) ==
    [d EXCEPT
        !.loginAttempts = IF update.unsetAttempts THEN 0
                          ELSE IF update.setAttempts # 0 THEN update.setAttempts
                          ELSE @ + update.inc,
        !.lockUntil = IF update.unsetLock THEN 0
                      ELSE IF update.setLock # 0 THEN update.setLock
                      ELSE @]

\* incLoginAttempts with the lock set one failure later
incLoginAttemptsLate(user, t) ==
    IF user.lockUntil # 0 /\ user.lockUntil < t
    THEN [NoUpdate EXCEPT !.unsetLock = TRUE, !.setAttempts = 1]
    ELSE IF user.loginAttempts >= MaxLoginAttempts /\ ~isLocked(user, t)
         THEN [NoUpdate EXCEPT !.inc = 1, !.setLock = t + LockMinutes]
         ELSE [NoUpdate EXCEPT !.inc = 1]

\* incLoginAttempts: the update it sends, decided on the loaded document
incLoginAttempts(user, t) ==
    IF user.lockUntil # 0 /\ user.lockUntil < t
    THEN [NoUpdate EXCEPT !.unsetLock = TRUE, !.setAttempts = 1]
    ELSE IF user.loginAttempts + 1 >= MaxLoginAttempts /\ ~isLocked(user, t)
         THEN [NoUpdate EXCEPT !.inc = 1, !.setLock = t + LockMinutes]
         ELSE [NoUpdate EXCEPT !.inc = 1]

\* resetLoginAttempts with the lock left in place
resetLoginAttemptsKeepLock == [NoUpdate EXCEPT !.unsetAttempts = TRUE]

\* resetLoginAttempts
resetLoginAttempts == [NoUpdate EXCEPT !.unsetAttempts = TRUE, !.unsetLock = TRUE]

\* login up to the password check: 423 for a locked account, 401 for a
\* deactivated one, 0 to go on
loginGate(user, isActive, t) ==
    IF isLocked(user, t) THEN 423
    ELSE IF ~isActive THEN 401
    ELSE 0

\* login from the password check on: the answer and the update it sends
loginAttempt(user, password, t) ==
    IF ~matchPassword(user, password)
    THEN [code |-> 401, update |-> incLoginAttempts(user, t)]
    ELSE [code |-> 200,
          update |-> IF user.loginAttempts > 0 THEN resetLoginAttempts
                     ELSE NoUpdate]

AuthOther == <<slaCalc, clsVars, slaVars, complaints, res, handled, extVars>>

\* time passes
AuthTick ==
    /\ clock + MinutesPerTick <= MaxClock
    /\ clock' = clock + MinutesPerTick
    /\ UNCHANGED <<account, jwts, resetIssued, inflight, authRes, users, AuthOther>>

\* POST /api/auth/login, handled without another request in between
Login(password) ==
    LET user == findByEmailWithPassword(account)
        gate == loginGate(user, users[AuthUser].isActive, clock)
        attempt == loginAttempt(user, password, clock)
        code == IF gate # 0 THEN gate ELSE attempt.code
    IN  /\ account' = IF gate # 0 THEN account
                      ELSE updateOne(account, attempt.update)
        /\ jwts' = IF code = 200 THEN jwts \cup {clock} ELSE jwts
        /\ authRes' = [op |-> "login", code |-> code, token |-> clock,
                       signed |-> code = 200, at |-> clock, entered |-> password,
                       user |-> user, mailed |-> FALSE]
        /\ UNCHANGED <<clock, resetIssued, inflight, users, AuthOther>>

\* what an answer that signs no token and loaded no document carries
Plain(op, code, token) ==
    [NoAuthRes EXCEPT !.op = op, !.code = code, !.token = token, !.at = clock]

\* protect (ES module) on the token with this iat: 0 for next(), else 401.
\* The user is loaded with select('-password').
protectToken(iat) ==
    LET user == select(account, {})
    IN  IF iat \notin jwts THEN 401
        ELSE IF ~users[AuthUser].isActive THEN 401
        ELSE IF user.passwordChangedAt # 0 /\ iat < user.passwordChangedAt THEN 401
        ELSE 0

\* protectToken without the look at isActive
socketAuthNoActive(iat) ==
    LET user == select(account, {})
    IN  IF iat \notin jwts THEN 401
        ELSE IF user.passwordChangedAt # 0 /\ iat < user.passwordChangedAt THEN 401
        ELSE 0

\* socketAuth on the token with this iat: 0 for next(), else next(Error)
socketAuth(iat) ==
    LET user == select(account, {})
    IN  IF iat \notin jwts THEN 401
        ELSE IF ~users[AuthUser].isActive THEN 401
        ELSE IF user.passwordChangedAt # 0 /\ iat < user.passwordChangedAt THEN 401
        ELSE 0

\* the password whose hash the account stores
CurrentPassword == CHOOSE password \in Passwords : matchPassword(account, password)

\* the most tokens signed in the runs that follow the tokens
MaxTokens == 3

\* the tokens a request may carry: the signed ones and a forged one
Carried == jwts \cup {MaxClock + 1}

\* a request of the user to a protected route (GET /api/auth/me)
Protect(iat) ==
    /\ authRes' = Plain("protect", IF protectToken(iat) = 0 THEN 200 ELSE 401, iat)
    /\ UNCHANGED <<account, clock, jwts, resetIssued, inflight, users, AuthOther>>

\* a socket connection of the user
SocketAuth(iat) ==
    /\ authRes' = Plain("socketAuth", IF socketAuth(iat) = 0 THEN 200 ELSE 401, iat)
    /\ UNCHANGED <<account, clock, jwts, resetIssued, inflight, users, AuthOther>>

\* DELETE /api/auth/users/:id by the admin a
DeleteUser(a, u) ==
    LET code == IF ~protect(a) THEN 401
                ELSE IF ~authorize({"admin"}, a) THEN 403
                ELSE IF ~users[u].registered THEN 404
                ELSE IF u = a THEN 400
                ELSE 200
    IN  /\ users' = IF code = 200 THEN [users EXCEPT ![u].isActive = FALSE]
                    ELSE users
        /\ authRes' = Plain("deleteUser", code, 0)
        /\ UNCHANGED <<account, clock, jwts, resetIssued, inflight, AuthOther>>

\* PUT /api/auth/users/:id with isActive in the body, by the admin a
SetActive(a, u, isActive) ==
    LET code == IF ~protect(a) THEN 401
                ELSE IF ~authorize({"admin"}, a) THEN 403
                ELSE IF ~users[u].registered THEN 404
                ELSE 200
    IN  /\ users' = IF code = 200 THEN [users EXCEPT ![u].isActive = isActive]
                    ELSE users
        /\ authRes' = Plain("updateUser", code, 0)
        /\ UNCHANGED <<account, clock, jwts, resetIssued, inflight, AuthOther>>

\* pre('save') of a stored user whose password was modified: the password
\* is hashed and passwordChangedAt is set to a second before now, which
\* rejects the tokens of an earlier minute and none of this minute
preSavePassword(d, password, t) ==
    [d EXCEPT !.password = bcryptHash(password), !.passwordChangedAt = t]

\* PUT /api/auth/update-password with the token of this iat
UpdatePassword(iat, currentPassword, newPassword) ==
    LET user == select(account, {"password"})
        code == IF protectToken(iat) # 0 THEN 401
                ELSE IF ~matchPassword(user, currentPassword) THEN 401
                ELSE IF matchPassword(user, newPassword) THEN 400
                ELSE 200
    IN  /\ account' = IF code = 200
                      THEN preSavePassword(account, newPassword, clock)
                      ELSE account
        /\ jwts' = IF code = 200 THEN jwts \cup {clock} ELSE jwts
        /\ authRes' = [Plain("updatePassword", code, IF code = 200 THEN clock ELSE iat)
                          EXCEPT !.signed = code = 200, !.entered = newPassword,
                                 !.user = user]
        /\ UNCHANGED <<clock, resetIssued, inflight, users, AuthOther>>

\* getResetPasswordToken without the hash and the expiry replaced when a
\* token is already stored
getResetPasswordTokenKeepFirst(d, resetToken, t) ==
    IF d.resetPasswordToken # 0 THEN d
    ELSE [d EXCEPT !.resetPasswordToken = sha256(resetToken),
                   !.resetPasswordExpire = t + ResetMinutes]

\* getResetPasswordToken: the hash of the new token and its expiry are set
getResetPasswordToken(d, resetToken, t) ==
    [d EXCEPT !.resetPasswordToken = sha256(resetToken),
              !.resetPasswordExpire = t + ResetMinutes]

\* sendEmail (ES module): every error of the send, the missing SMTP
\* configuration included, is caught inside and answered with a result of
\* success false; nothing is thrown to the caller
sendEmail(delivery) ==
    [success |-> ~emailThrows(delivery), threw |-> FALSE]

\* POST /api/auth/forgot-password; the token is the next one never generated.
\* The token is saved before the send, and removed in the catch block of the
\* send only; the result of sendEmail is not looked at.
ForgotPassword(delivery) ==
    LET resetToken == resetIssued + 1
        mail == sendEmail(delivery)
        code == IF ~users[AuthUser].isActive THEN 401
                ELSE IF mail.threw THEN 500
                ELSE 200
    IN  /\ resetIssued < MaxResets
        /\ account' = IF code = 200
                      THEN getResetPasswordToken(account, resetToken, clock)
                      ELSE IF code = 500
                      THEN [account EXCEPT !.resetPasswordToken = 0,
                                           !.resetPasswordExpire = 0]
                      ELSE account
        /\ resetIssued' = IF code = 401 THEN resetIssued ELSE resetToken
        /\ authRes' = [Plain("forgotPassword", code, resetToken) EXCEPT
                          !.mailed = code # 401 /\ mail.success]
        /\ UNCHANGED <<clock, jwts, inflight, users, AuthOther>>

\* User.findOne({ resetPasswordToken, resetPasswordExpire: { $gt: now } })
findByResetToken(d, hashed, t) ==
    d.resetPasswordToken = hashed /\ d.resetPasswordExpire > t

\* PUT /api/auth/reset-password
ResetPassword(token, password) ==
    LET found == findByResetToken(account, sha256(token), clock)
        code == IF found THEN 200 ELSE 400
    IN  /\ account' = IF found
                      THEN [preSavePassword(account, password, clock) EXCEPT
                               !.resetPasswordToken = 0,
                               !.resetPasswordExpire = 0]
                      ELSE account
        /\ jwts' = IF found THEN jwts \cup {clock} ELSE jwts
        /\ authRes' = [Plain("resetPassword", code, token) EXCEPT
                          !.signed = found, !.entered = password,
                          !.user = account]
        /\ UNCHANGED <<clock, resetIssued, inflight, users, AuthOther>>

\* login of request r up to its read: the document is loaded and the
\* lock and the activity are looked at
LoginFind(r) ==
    LET user == findByEmailWithPassword(account)
        gate == loginGate(user, users[AuthUser].isActive, clock)
    IN  /\ inflight[r].stage = "idle"
        /\ inflight' = [inflight EXCEPT
                           ![r] = IF gate # 0 THEN NoFlight
                                  ELSE [stage |-> "found", user |-> user]]
        /\ authRes' = IF gate # 0
                      THEN [op |-> "login", code |-> gate, token |-> clock,
                            signed |-> FALSE, at |-> clock, entered |-> "bad",
                            user |-> user, mailed |-> FALSE]
                      ELSE authRes
        /\ UNCHANGED <<account, clock, jwts, resetIssued, users, AuthOther>>

\* login of request r from its password check on, the password being wrong:
\* the update decided on the document the request loaded reaches the store
LoginFail(r) ==
    LET user == inflight[r].user
        attempt == loginAttempt(user, "bad", clock)
    IN  /\ inflight[r].stage = "found"
        /\ account' = updateOne(account, attempt.update)
        /\ inflight' = [inflight EXCEPT ![r] = NoFlight]
        /\ authRes' = [op |-> "login", code |-> attempt.code, token |-> clock,
                       signed |-> FALSE, at |-> clock, entered |-> "bad",
                       user |-> user, mailed |-> FALSE]
        /\ UNCHANGED <<clock, jwts, resetIssued, users, AuthOther>>

(***************************************************************************)
(* The stored complaint document and its SLA status over time.             *)
(***************************************************************************)
\* pre('save'): the document is written with sla.status recomputed
preSave(d, t) == [d EXCEPT !.sla.status = updateSLAStatus(d.sla, t)]

\* a complaint document is created with the SLA of calculateSLA and saved
CreateDocument(department, priority) ==
    LET sla == calculateSLA(department, "Other", priority, now)
        saved == preSave([NoDoc EXCEPT !.exists = TRUE, !.sla = sla], now)
    IN  /\ ~doc.exists
        /\ doc' = saved
        /\ view' = [op |-> "save", status |-> saved.sla.status, fresh |-> TRUE]
        /\ UNCHANGED <<now, slaCalc, clsVars, appVars, authVars>>

\* any later save() of the document
SaveDocument ==
    LET saved == preSave(doc, now)
    IN  /\ doc.exists
        /\ doc' = saved
        /\ view' = [op |-> "save", status |-> saved.sla.status, fresh |-> TRUE]
        /\ UNCHANGED <<now, slaCalc, clsVars, appVars, authVars>>

\* getComplaint: updateSLAStatus on the loaded document, which is returned
\* and not saved
ReadDocument ==
    /\ doc.exists
    /\ view' = [op |-> "read", status |-> updateSLAStatus(doc.sla, now),
                fresh |-> TRUE]
    /\ UNCHANGED <<now, doc, slaCalc, clsVars, appVars, authVars>>

\* getComplaints: the same on every document of the page
ListDocuments ==
    /\ doc.exists
    /\ view' = [op |-> "list", status |-> updateSLAStatus(doc.sla, now),
                fresh |-> TRUE]
    /\ UNCHANGED <<now, doc, slaCalc, clsVars, appVars, authVars>>

DocPriorities == CalcPriorities \cup {"urgent"}

\* the virtual isOverdue: the deadline lies in the past and the complaint is
\* not resolved, closed or rejected
isOverdue(d, t) ==
    /\ d.exists
    /\ t > d.sla.deadline
    /\ d.status \notin {"resolved", "closed", "rejected"}

\* a request makes the document's updateStatus method write newStatus and save
DocUpdateStatus(newStatus) ==
    LET saved == preSave([doc EXCEPT !.status = newStatus], now)
    IN  /\ doc.exists
        /\ doc' = saved
        /\ view' = [op |-> "save", status |-> saved.sla.status, fresh |-> TRUE]
        /\ UNCHANGED <<now, slaCalc, clsVars, appVars, authVars>>

\* a request makes the document's escalate method write escalated and save
DocEscalate ==
    LET saved == preSave([doc EXCEPT !.status = "escalated"], now)
    IN  /\ doc.exists
        /\ doc' = saved
        /\ view' = [op |-> "save", status |-> saved.sla.status, fresh |-> TRUE]
        /\ UNCHANGED <<now, slaCalc, clsVars, appVars, authVars>>

(***************************************************************************)
(* Phone verification (ES module): User.js and authController.js.          *)
(***************************************************************************)
PhoneOther ==
    <<slaCalc, clsVars, slaVars, appVars, handled, credVars, limitVars>>

\* User.findOne({ phoneNumber }) with the code and its expiry loaded as well
findByPhoneNumberWithCode(d) == d

\* User.findOne({ phoneNumber }): phoneVerificationCode and
\* phoneVerificationExpires are select: false and are not loaded
findByPhoneNumber(d) ==
    [d EXCEPT !.phoneVerificationCode = 0, !.phoneVerificationExpires = 0]

\* generatePhoneVerificationCode: the hash of the code and its expiry are set
generatePhoneVerificationCode(d, code, t) ==
    [d EXCEPT !.phoneVerificationCode = sha256Code(code),
              !.phoneVerificationExpires = t + PhoneCodeMinutes]

\* verifyPhoneCode on the loaded document
verifyPhoneCode(d, code, t) ==
    /\ d.phoneVerificationCode = sha256Code(code)
    /\ d.phoneVerificationExpires > t

PhoneAnswer(op, code, number, presented) ==
    [op |-> op, code |-> code, phoneNumber |-> number,
     presented |-> presented, at |-> clock, before |-> phone]

\* register: the user is created unverified, a code is generated and saved,
\* and a failure of its SMS is logged only
RegisterWithPhone(number, code, delivery) ==
    LET taken == number = OtherPhone
    IN  /\ phone.phoneNumber = ""
        /\ phone' = IF taken THEN phone
                    ELSE generatePhoneVerificationCode(
                             [NoPhone EXCEPT !.phoneNumber = number], code, clock)
        /\ codeLog' = IF taken THEN codeLog
                      ELSE [codeLog EXCEPT !.number = number,
                                           !.delivered = ~smsThrows(delivery)]
        /\ phoneRes' = PhoneAnswer("register", IF taken THEN 400 ELSE 201,
                                   number, code)
        /\ UNCHANGED <<PhoneOther>>

\* POST /api/auth/send-phone-verification
SendPhoneVerification(number, code, delivery) ==
    LET user == findByPhoneNumber(phone)
        status == IF phone.phoneNumber # number THEN 404
                  ELSE IF user.isPhoneVerified THEN 400
                  ELSE IF smsThrows(delivery) THEN 500
                  ELSE 200
    IN  /\ phone' = IF status = 200
                    THEN generatePhoneVerificationCode(phone, code, clock)
                    ELSE IF status = 500
                    THEN [phone EXCEPT !.phoneVerificationCode = 0,
                                       !.phoneVerificationExpires = 0]
                    ELSE phone
        /\ codeLog' = IF status = 200
                      THEN [codeLog EXCEPT !.number = number, !.delivered = TRUE]
                      ELSE IF status = 500
                      THEN [codeLog EXCEPT !.number = "", !.delivered = FALSE]
                      ELSE codeLog
        /\ phoneRes' = PhoneAnswer("sendPhoneVerification", status, number, code)
        /\ UNCHANGED <<PhoneOther>>

\* POST /api/auth/verify-phone
VerifyPhone(number, code) ==
    LET user == findByPhoneNumber(phone)
        status == IF phone.phoneNumber # number THEN 404
                  ELSE IF user.isPhoneVerified THEN 400
                  ELSE IF ~verifyPhoneCode(user, code, clock) THEN 400
                  ELSE 200
    IN  /\ phone' = IF status = 200
                    THEN [phone EXCEPT !.isPhoneVerified = TRUE,
                                       !.phoneVerificationCode = 0,
                                       !.phoneVerificationExpires = 0]
                    ELSE phone
        /\ codeLog' = IF status = 200
                      THEN [codeLog EXCEPT
                               !.byCode = phone.phoneVerificationCode = sha256Code(code),
                               !.byNumber = codeLog.number,
                               !.byDelivered = codeLog.delivered,
                               !.byInTime = phone.phoneVerificationExpires > clock,
                               !.number = "", !.delivered = FALSE]
                      ELSE codeLog
        /\ phoneRes' = PhoneAnswer("verifyPhone", status, number, code)
        /\ UNCHANGED <<PhoneOther>>

\* updateDetails with the verification left as it is when the number changes
updateDetailsKeepVerified(d, number) ==
    IF number # d.phoneNumber THEN [d EXCEPT !.phoneNumber = number] ELSE d

\* updateDetails: a changed phone number resets isPhoneVerified
updateDetails(d, number) ==
    IF number # d.phoneNumber
    THEN [d EXCEPT !.phoneNumber = number, !.isPhoneVerified = FALSE]
    ELSE d

\* PUT /api/auth/update-details by the user, naming a phone number
UpdateDetails(number) ==
    LET taken == number # phone.phoneNumber /\ number = OtherPhone
    IN  /\ phone.phoneNumber # ""
        /\ phone' = IF taken THEN phone ELSE updateDetails(phone, number)
        /\ phoneRes' = PhoneAnswer("updateDetails", IF taken THEN 400 ELSE 200,
                                   number, 0)
        /\ UNCHANGED <<codeLog, PhoneOther>>

\* PUT /api/auth/users/:id by an admin, naming isPhoneVerified
UpdateUserVerified(isPhoneVerified) ==
    /\ phone.phoneNumber # ""
    /\ phone' = [phone EXCEPT !.isPhoneVerified = isPhoneVerified]
    /\ codeLog' = [codeLog EXCEPT !.admin = TRUE]
    /\ phoneRes' = PhoneAnswer("updateUser", 200, phone.phoneNumber, 0)
    /\ UNCHANGED <<PhoneOther>>

(***************************************************************************)
(* sensitiveOpLimit (ES module middleware).                                *)
(***************************************************************************)
LimitOther ==
    <<slaCalc, clsVars, slaVars, appVars, handled, credVars, phoneVars>>

\* "Clean old entries": an entry is deleted once its timestamp lies more
\* than windowMs back
cleanOldEntries(m, t) ==
    [k \in LimitKeys |->
        IF m[k].count > 0 /\ t - m[k].timestamp > windowMs THEN NoEntry ELSE m[k]]

\* the middleware with the timestamp written anew by every counted request
sensitiveOpLimitRefresh(m, key, t) ==
    LET cleaned == cleanOldEntries(m, t)
        userAttempts == cleaned[key]
    IN  IF userAttempts.count >= maxAttempts
        THEN [code |-> 429, attempts |-> cleaned]
        ELSE [code |-> 0,
              attempts |-> [cleaned EXCEPT
                  ![key] = [count |-> userAttempts.count + 1, timestamp |-> t]]]

\* the middleware on a request of this key at time t: 429, or 0 for next(),
\* and the Map it leaves
sensitiveOpLimit(m, key, t) ==
    LET cleaned == cleanOldEntries(m, t)
        userAttempts == cleaned[key]
    IN  IF userAttempts.count >= maxAttempts
        THEN [code |-> 429, attempts |-> cleaned]
        ELSE [code |-> 0,
              attempts |-> [cleaned EXCEPT
                  ![key] = IF userAttempts.count > 0
                           THEN [userAttempts EXCEPT !.count = @ + 1]
                           ELSE [count |-> 1, timestamp |-> t]]]

\* time passes
LimitTick ==
    /\ limitNow < MaxLimitTime
    /\ limitNow' = limitNow + 1
    /\ UNCHANGED <<attempts, limitLog, limitRes, LimitOther>>

\* PUT /api/auth/update-password reaches the limiter
SensitiveRequest(key) ==
    LET answer == sensitiveOpLimit(attempts, key, limitNow)
    IN  /\ key = Client => Len(limitLog) < MaxHistory
        /\ attempts' = answer.attempts
        /\ limitRes' = [key |-> key, code |-> answer.code, at |-> limitNow]
        /\ limitLog' = IF key = Client
                       THEN Append(limitLog, [t |-> limitNow, let |-> answer.code = 0])
                       ELSE limitLog
        /\ UNCHANGED <<limitNow, LimitOther>>

(***************************************************************************)
(* Specifications.                                                         *)
(***************************************************************************)
\* the state after the seed: one citizen, an officer, a mitra and an admin
Init ==
    /\ IdleApp
    /\ IdleCls
    /\ IdleCalc
    /\ IdleSla
    /\ IdleAuth

\* the callers of the life-cycle requests: the citizen, the officer and the
\* mitra of the complaint's department
Callers == {"A", "off", "mit"}

\* the complaint life cycle behind the REST routes
Next ==
    \/ \E u \in Callers, text \in CreateTexts : PostComplaint(u, text)
    \/ \E u \in Callers, c \in ComplaintIds, status \in Statuses, remarks \in {"", "ok"} :
          PutStatus(u, c, status, remarks)
    \/ \E u \in Callers, c \in ComplaintIds, m \in {"mit", "off"}, remarks \in {"", "ok"} :
          PutAssign(u, c, m, remarks)
    \/ \E u \in Callers, c \in ComplaintIds, text \in {"", "ok"} : PostRemark(u, c, text)
    \/ \E u \in Callers, c \in ComplaintIds, rating \in Ratings, satisfied \in BOOLEAN :
          PostFeedback(u, c, rating, satisfied)

Spec == Init /\ [][Next]_vars

\* the life cycle with the model's own status-writing methods called as well
NextModel ==
    \/ \E u \in Callers, text \in CreateTexts : PostComplaint(u, text)
    \/ \E u \in Callers, c \in ComplaintIds, status \in Statuses :
          PutStatus(u, c, status, "ok")
    \/ \E u \in Callers, c \in ComplaintIds : PutAssign(u, c, "mit", "")
    \/ \E u \in Callers, c \in ComplaintIds, satisfied \in BOOLEAN :
          PostFeedback(u, c, 5, satisfied)
    \/ \E c \in ComplaintIds : AssignToMitra(c, "mit")
    \/ \E c \in ComplaintIds, newStatus \in Statuses : UpdateStatus(c, newStatus, "")
    \/ \E c \in ComplaintIds, level \in {0, 5} : Escalate(c, level)

SpecModel == Init /\ [][NextModel]_vars

\* who may read a complaint, while users register and an admin edits them
NextAccess ==
    \/ \E u \in UserIds, text \in CreateTexts : PostComplaint(u, text)
    \/ \E u \in UserIds, c \in ComplaintIds : GetComplaint(u, c)
    \/ \E u \in UserIds, c \in ComplaintIds : GetComplaintEsm(u, c)
    \/ \E u \in CitizenIds, email \in Emails : Register(u, email)
    \/ \E a \in UserIds, u \in CitizenIds, email \in Emails : UpdateUser(a, u, email)

SpecAccess == Init /\ [][NextAccess]_vars

\* the four requests that notify by e-mail or SMS after their change is saved
NextNotify ==
    \/ \E u \in Callers, text \in CreateTexts : PostComplaint(u, text)
    \/ \E u \in Callers, c \in ComplaintIds, status \in Statuses :
          PutStatus(u, c, status, "ok")
    \/ \E u \in Callers, c \in ComplaintIds : PutAssign(u, c, "mit", "")
    \/ \E u \in CitizenIds, email \in Emails : Register(u, email)

SpecNotify == Init /\ [][NextNotify]_vars

\* the list of complaints, read by every role with every filter
QueryStatuses == {"", "new", "assigned"}
QueryPriorities == {"", "high"}
QueryDepartments == {"", "PWD", "Health Department"}

NextList ==
    \/ \E u \in Callers, text \in CreateTexts : PostComplaint(u, text)
    \/ \E u \in Callers, c \in ComplaintIds : PutAssign(u, c, "mit", "")
    \/ \E u \in UserIds, status \in QueryStatuses, priority \in QueryPriorities,
          department \in QueryDepartments :
          GetComplaints(u, [status |-> status, priority |-> priority,
                            department |-> department])

SpecList == Init /\ [][NextList]_vars

\* the errors that reach the central handler
NextErr ==
    \E name \in ErrNames, code \in ErrCodes, statusCode \in ErrStatusCodes :
       HandleError([name |-> name, code |-> code, statusCode |-> statusCode])

SpecErr == Init /\ [][NextErr]_vars

\* logins of one account, one after another, while time passes
NextLogin ==
    \/ AuthTick
    \/ \E password \in {"p0", "bad"} : Login(password)

SpecLogin == Init /\ [][NextLogin]_vars

\* failed logins of one account handled at the same time: each request
\* awaits its read, then its password check and its write
NextLoginRace ==
    \/ AuthTick
    \/ \E r \in Requests : LoginFind(r)
    \/ \E r \in Requests : LoginFail(r)

SpecLoginRace == Init /\ [][NextLoginRace]_vars

\* an admin deactivates and reactivates the user, who goes on sending requests
NextDeactivate ==
    \/ AuthTick
    \/ Cardinality(jwts) < MaxTokens - 1 /\ Login("p0")
    \/ Login("bad")
    \/ \E iat \in Carried : Protect(iat)
    \/ \E iat \in Carried : SocketAuth(iat)
    \/ \E a \in {"adm", "off"}, u \in {AuthUser, "adm"} : DeleteUser(a, u)
    \/ \E isActive \in BOOLEAN : SetActive("adm", AuthUser, isActive)
    \/ ForgotPassword("sent")
    \/ Cardinality(jwts) < MaxTokens - 1 /\ ResetPassword(resetIssued, "p0")

SpecDeactivate == Init /\ [][NextDeactivate]_vars

\* the user logs in, changes the password and uses the tokens
NextPassword ==
    \/ AuthTick
    \/ Cardinality(jwts) < MaxTokens /\ Login(CurrentPassword)
    \/ \E iat \in Carried : Protect(iat)
    \/ /\ Cardinality(jwts) < MaxTokens
       /\ \E iat \in jwts, newPassword \in Passwords :
             UpdatePassword(iat, CurrentPassword, newPassword)
    \/ ForgotPassword("sent")
    \/ Cardinality(jwts) < MaxTokens /\ ResetPassword(resetIssued, "p1")

SpecPassword == Init /\ [][NextPassword]_vars

\* password-reset tokens are requested, used and left to expire
NextReset ==
    \/ AuthTick
    \/ \E delivery \in {"sent", "emailFails"} : ForgotPassword(delivery)
    \/ \E token \in 1 .. (MaxResets + 1), password \in Passwords :
          ResetPassword(token, password)

SpecReset == Init /\ [][NextReset]_vars

\* a user registers, asks for codes, presents codes and changes the number,
\* and an admin writes isPhoneVerified
NextPhone ==
    \/ AuthTick
    \/ \E number \in Phones, code \in Codes, delivery \in SmsDeliveries :
          RegisterWithPhone(number, code, delivery)
    \/ \E number \in Phones \ {OtherPhone}, code \in Codes,
          delivery \in SmsDeliveries :
          SendPhoneVerification(number, code, delivery)
    \/ \E number \in Phones \ {OtherPhone}, code \in Codes :
          VerifyPhone(number, code)
    \/ \E number \in Phones : UpdateDetails(number)
    \/ \E isPhoneVerified \in BOOLEAN : UpdateUserVerified(isPhoneVerified)

SpecPhone == Init /\ [][NextPhone]_vars

\* two clients send requests to the limited route while time passes
NextLimit ==
    \/ LimitTick
    \/ \E key \in LimitKeys : SensitiveRequest(key)

SpecLimit == Init /\ [][NextLimit]_vars

\* the classifier as a function of its inputs
InitCls ==
    /\ InitClassify
    /\ IdleApp
    /\ IdleCalc
    /\ IdleSla
    /\ IdleAuth

NextCls ==
    \/ Classify /\ UNCHANGED <<slaCalc, slaVars, appVars, authVars>>
    \/ ClassifyCjs /\ UNCHANGED <<slaCalc, slaVars, appVars, authVars>>

SpecCls == InitCls /\ [][NextCls]_vars

\* calculateSLA as a function of department, priority and instant
NextCalc ==
    \/ Tick
    \/ \E department \in CalcDepartments : CalculateSLA(department)

SpecCalc == Init /\ [][NextCalc]_vars

\* one complaint document, the clock, saves and reads
NextSla ==
    \/ Tick
    \/ \E department \in CalcDepartments, priority \in DocPriorities :
          CreateDocument(department, priority)
    \/ SaveDocument
    \/ ReadDocument
    \/ ListDocuments

SpecSla == Init /\ [][NextSla]_vars

\* the document over time with the requests that change its status.  The
\* server starts no timer and no job: the one thing that happens without a
\* request is that time passes.
NextOverdue ==
    \/ Tick
    \/ \E department \in {"Fire Department", "Electricity"},
          priority \in DocPriorities : CreateDocument(department, priority)
    \/ ReadDocument
    \/ \E newStatus \in Statuses : DocUpdateStatus(newStatus)
    \/ DocEscalate

SpecOverdue == Init /\ [][NextOverdue]_vars /\ WF_vars(Tick)

(***************************************************************************)
(* Properties.                                                             *)
(***************************************************************************)
\* the transition table as the specification words it; closed has no row
SpecTable(s) ==
    CASE s = "new" -> {"assigned", "rejected"}
      [] s = "assigned" -> {"in_progress", "rejected"}
      [] s = "in_progress" -> {"resolved", "escalated"}
      [] s = "resolved" -> {"closed"}
      [] s = "rejected" -> {"new", "escalated"}
      [] s = "escalated" -> {"assigned", "in_progress", "resolved"}
      [] OTHER -> {}

\* complaint c existed before the step and the step changed its status
StatusChanged(c) ==
    /\ complaints[c].exists
    /\ complaints'[c].status # complaints[c].status

\* C1, as stated: every change of a complaint's status from s to t, whichever
\* operation makes it, has t in the table's row of s.
C1_EveryChangeInTable ==
    [][\A c \in ComplaintIds :
          StatusChanged(c) => complaints'[c].status \in SpecTable(complaints[c].status)]_vars

\* C1, amended: a change of status made by the status-update or the
\* assign-to-mitra endpoint has t in the table's row of s; citizen feedback
\* changes resolved to closed or to escalated; the model's methods write the
\* status they are given (assigned, the named status, escalated) from any
\* status.  No endpoint takes a complaint from new to resolved.
C1_EndpointChangesInTable ==
    [][\A c \in ComplaintIds :
          StatusChanged(c) =>
             LET s == complaints[c].status
                 t == complaints'[c].status
                 op == res'.op
             IN  /\ op \in {"updateComplaintStatus", "assignComplaintToMitra"}
                       => t \in SpecTable(s)
                 /\ op = "submitFeedback"
                       => s = "resolved" /\ t \in {"closed", "escalated"}
                 /\ op = "assignToMitra" => t = "assigned"
                 /\ op = "updateStatus" => t = res'.target
                 /\ op = "escalate" => t = "escalated"
                 /\ op \in {"updateComplaintStatus", "assignComplaintToMitra",
                            "submitFeedback"}
                       => ~(s = "new" /\ t = "resolved")]_vars

\* a complaint escalated by feedback has been resolved again through the
\* status-update endpoint
C1_Witness ==
    /\ res.op = "updateComplaintStatus"
    /\ res.code = 200
    /\ res.target = "resolved"
    /\ complaints["c1"].status = "resolved"
    /\ complaints["c1"].escalation.level = 1

\* C2: a status-update request naming a target that the table does not list
\* for the complaint's current status (every target for closed) leaves the
\* complaint as it was, and is answered 400 when the caller is let through to
\* the handler.
C2_UnlistedRejected ==
    [][\A c \in ComplaintIds :
          (/\ res'.op = "updateComplaintStatus"
           /\ res'.cid = c
           /\ complaints[c].exists
           /\ res'.target \notin SpecTable(complaints[c].status))
          => /\ complaints'[c] = complaints[c]
             /\ res'.code # 200
             /\ Chain({"officer", "mitra", "admin"}, res'.user, c) = 0
                   => res'.code = 400]_vars

\* a closed complaint has refused the officer's request for assigned
C2_Witness ==
    /\ res.op = "updateComplaintStatus"
    /\ res.user = "off"
    /\ res.target = "assigned"
    /\ res.code = 400
    /\ complaints["c1"].status = "closed"

\* C3: a citizen who did not create the complaint is answered 403 by the
\* single-complaint endpoint and the complaint is not attached.
C3_OnlyTheCreatorReads ==
    (/\ res.op \in {"getComplaint", "getComplaintEsm"}
     /\ res.cid \in ComplaintIds
     /\ users[res.user].registered
     /\ users[res.user].role = "citizen"
     /\ complaints[res.cid].exists
     /\ complaints[res.cid].citizen.userId # res.user)
    => res.code = 403 /\ res.complaint = ""

\* a feedback request of the complaint's citizen with a valid body, on a
\* resolved complaint
FeedbackOnResolved(c) ==
    /\ res'.op = "submitFeedback"
    /\ res'.cid = c
    /\ res'.target = "valid"
    /\ Chain({"citizen"}, res'.user, c) = 0
    /\ complaints[c].status = "resolved"

FeedbackEffect(c) ==
    IF res'.satisfied
    THEN /\ complaints'[c].status = "closed"
         /\ complaints'[c].escalation.level = complaints[c].escalation.level
    ELSE /\ complaints'[c].status = "escalated"
         /\ complaints'[c].escalation.level = complaints[c].escalation.level + 1

\* C4, as stated: feedback on a resolved complaint escalates it and adds one
\* to the escalation level when satisfied is false, closes it and keeps the
\* level when satisfied is true.
C4_FeedbackOnResolved ==
    [][\A c \in ComplaintIds : FeedbackOnResolved(c) => FeedbackEffect(c)]_vars

\* C4, amended: the same for a resolved complaint on which no feedback has
\* been recorded yet; further feedback is answered 400 and changes nothing.
C4_FirstFeedbackOnResolved ==
    [][\A c \in ComplaintIds :
          FeedbackOnResolved(c) =>
             IF complaints[c].citizenFeedback.rating = 0
             THEN FeedbackEffect(c) /\ res'.code = 200
             ELSE complaints'[c] = complaints[c] /\ res'.code = 400]_vars

\* the citizen's unsatisfied feedback has escalated the complaint
C4_Witness ==
    /\ res.op = "submitFeedback"
    /\ res.code = 200
    /\ ~res.satisfied
    /\ complaints["c1"].status = "escalated"
    /\ complaints["c1"].escalation.level = 1
    /\ complaints["c1"].citizenFeedback.rating # 0

\* C5: for every department, in the matrix or not, the hours of calculateSLA
\* grow strictly from critical over high and medium to low, a department the
\* matrix lacks gets the hours of PWD, and the critical deadline is earlier
\* than the low deadline of the same instant.
C5_HoursGrowWithPriority ==
    slaCalc.department # "" =>
       LET hours(p) == slaCalc.by[p].hoursAllocated
       IN  /\ hours("critical") < hours("high")
           /\ hours("high") < hours("medium")
           /\ hours("medium") < hours("low")
           /\ slaCalc.by["critical"].deadline < slaCalc.by["low"].deadline
           /\ slaCalc.department \notin matrixDepartments
                 => <<hours("critical"), hours("high"), hours("medium"), hours("low")>>
                       = <<4, 24, 72, 168>>

\* calculateSLA has answered for a department the matrix lacks, after time
\* has passed
C5_Witness ==
    /\ slaCalc.department = "Other"
    /\ slaCalc.by["critical"].deadline > 4 * TicksPerHour

\* both services have answered the call
BothCalled == DOMAIN clsResult = {"esm", "cjs"}

\* C6: the confidence classifyComplaint resolves with lies in [0,1] (0..100
\* hundredths), in either service and on every path.
C6_ConfidenceInUnitInterval ==
    \A g \in DOMAIN clsResult :
       clsResult[g].confidence >= 0 /\ clsResult[g].confidence <= 100

\* the AI's reply was used and carried a confidence of 1.5
C6_Witness ==
    /\ BothCalled
    /\ clsInput.ai.confidence = JNum(150)
    /\ clsResult["esm"].model = "gemini-pro"
    /\ clsResult["cjs"].category = "Electricity"

\* the closed vocabularies of a service
VocabularyOf(g) ==
    IF g = "esm"
    THEN [category |-> categories, department |-> departments,
          priority |-> priorities]
    ELSE [category |-> categoriesCjs, department |-> departmentsCjs,
          priority |-> prioritiesCjs]

\* C7: whatever the AI call does, classifyComplaint resolves with a category,
\* a department and a priority of the service's closed vocabularies.
C7_ResultInVocabularies ==
    \A g \in DOMAIN clsResult :
       /\ clsResult[g].category \in VocabularyOf(g).category
       /\ clsResult[g].department \in VocabularyOf(g).department
       /\ clsResult[g].priority \in VocabularyOf(g).priority

\* the AI answered a JSON object naming nothing of the vocabularies
C7_Witness ==
    /\ BothCalled
    /\ clsInput.titleIsString
    /\ clsInput.ai.shape = "object"
    /\ ~clsInput.ai.wrapped
    /\ clsInput.ai.category = JStr("Bogus")
    /\ clsInput.ai.department = JStr("Bogus")
    /\ clsInput.ai.priority = JStr("urgent")

Triple(r) == <<r.category, r.department, r.priority>>

\* the three fields as the reply names them ("" for a field that is no string)
ReplyTriple ==
    [category |-> clsInput.ai.category.s,
     department |-> clsInput.ai.department.s,
     priority |-> clsInput.ai.priority.s]

\* the keyword fallback of a service on the call's text
FallbackTriple(g) ==
    IF g = "esm"
    THEN Triple(fallbackClassification(clsInput.text))
    ELSE Triple(fallbackClassificationCjs(clsInput.text))

\* the call succeeded with a reply that is one JSON object whose three fields
\* are strings
WellFormedReply ==
    /\ clsInput.ai.kind = "reply"
    /\ clsInput.ai.shape = "object"
    /\ ~clsInput.ai.wrapped
    /\ clsInput.ai.category.t = "string"
    /\ clsInput.ai.department.t = "string"
    /\ clsInput.ai.priority.t = "string"

ReplyInVocabularies(g) ==
    /\ ReplyTriple.category \in VocabularyOf(g).category
    /\ ReplyTriple.department \in VocabularyOf(g).department
    /\ ReplyTriple.priority \in VocabularyOf(g).priority

\* C8, as stated (for a complaint whose title is a string): the reply's
\* category, department and priority are returned only when the call succeeds
\* with a well-formed reply naming all three inside the vocabularies; in
\* every other case the three are those of the keyword fallback on the text.
C8_ReplyOrFallback ==
    \A g \in DOMAIN clsResult :
       clsInput.titleIsString =>
          Triple(clsResult[g]) =
             IF WellFormedReply /\ ReplyInVocabularies(g)
             THEN Triple(ReplyTriple)
             ELSE FallbackTriple(g)

\* the reply with each field outside its vocabulary replaced on its own
FieldwiseReply(g) ==
    LET category == IF ReplyTriple.category \in VocabularyOf(g).category
                    THEN ReplyTriple.category ELSE "Other"
        mapped == IF g = "esm" THEN categoryDepartmentMap[category]
                  ELSE categoryToDepartment[category]
        department == IF ReplyTriple.department \in VocabularyOf(g).department
                      THEN ReplyTriple.department ELSE mapped
        priority == IF ReplyTriple.priority \in VocabularyOf(g).priority
                    THEN ReplyTriple.priority ELSE "medium"
    IN  <<category, department, priority>>

\* the reply a service takes for a classification
ReplyAccepted(g) ==
    IF g = "esm"
    THEN WellFormedReply /\ clsInput.ai.confidence.t \in {"number", "undefined"}
    ELSE clsInput.ai.kind = "reply" /\ clsInput.ai.shape = "object"

\* C8, amended (for a complaint whose title is a string): a service uses the
\* reply whenever the call succeeds and the reply is well-formed for it
\* (ES-module: the whole reply is a JSON object with string category,
\* department and priority and a numeric or absent confidence; CommonJS: the
\* reply holds a JSON object, also inside other text); a field outside its
\* vocabulary is replaced on its own (category by Other, department by the
\* department the category maps to, priority by medium) and the other fields
\* are kept.  In every other case the three are those of the keyword fallback
\* on the text.
C8_ReplyFieldwiseOrFallback ==
    \A g \in DOMAIN clsResult :
       clsInput.titleIsString =>
          Triple(clsResult[g]) =
             IF ReplyAccepted(g) THEN FieldwiseReply(g) ELSE FallbackTriple(g)

\* a well-formed reply with an unknown category was used, not the fallback
C8_Witness ==
    /\ BothCalled
    /\ clsInput.titleIsString
    /\ clsInput.text = {"road", "serious"}
    /\ WellFormedReply
    /\ ReplyTriple.category = "Bogus"
    /\ ReplyTriple.department = "Fire Department"
    /\ Triple(clsResult["esm"]) = <<"Other", "Fire Department", "critical">>
    /\ Triple(clsResult["cjs"]) = <<"Other", "Fire Department", "critical">>

\* the keyword fallback decides: the AI is disabled and the title is a string
FallbackDecides == clsInput.ai = AIDisabled /\ clsInput.titleIsString

\* C9, as stated: a text containing "fire" and "emergency", whatever else it
\* contains, is classified by the keyword fallback into the Fire Department
\* with priority critical.
C9_FireEmergencyAnyText ==
    \A g \in DOMAIN clsResult :
       (FallbackDecides /\ {"fire", "emergency"} \subseteq clsInput.text)
       => /\ clsResult[g].department = "Fire Department"
          /\ clsResult[g].priority = "critical"

\* C9, amended: for a text containing "fire" and "emergency" and no other
\* keyword of the tables, the ES-module fallback yields Fire Safety, mapped to
\* the Fire Department, and the CommonJS fallback Public Safety, mapped to the
\* Municipal Corporation, both with priority critical.
C9_FireEmergencyAlone ==
    (FallbackDecides /\ clsInput.text = {"fire", "emergency"})
    => /\ "esm" \in DOMAIN clsResult =>
             Triple(clsResult["esm"]) = <<"Fire Safety", "Fire Department", "critical">>
       /\ "cjs" \in DOMAIN clsResult =>
             Triple(clsResult["cjs"])
                = <<"Public Safety", "Municipal Corporation", "critical">>

\* both fallbacks have classified the text "fire emergency"
C9_Witness ==
    /\ BothCalled
    /\ FallbackDecides
    /\ clsInput.text = {"fire", "emergency"}
    /\ clsResult["esm"].model = "keyword-fallback"

\* the status the thresholds ask for: ten times the hours remaining against
\* twice the hours allocated
ThresholdStatus(sla, t) ==
    CASE t > sla.deadline -> "breach"
      [] t <= sla.deadline /\ 10 * (sla.deadline - t) <= 2 * sla.hoursAllocated * TicksPerHour
            -> "warning"
      [] OTHER -> "safe"

StatusRank(status) ==
    CASE status = "safe" -> 0 [] status = "warning" -> 1 [] status = "breach" -> 2

\* C10: the sla.status a save stores and a read returns is the one the
\* thresholds ask for at that instant, and from one recomputation to the next
\* it only moves from safe to warning to breach.
C10_StatusFollowsThresholds ==
    /\ [](view.fresh =>
            /\ view.status = ThresholdStatus(doc.sla, now)
            /\ view.op = "save" => doc.sla.status = view.status)
    /\ [][view.op # "none" => StatusRank(view'.status) >= StatusRank(view.status)]_vars

\* a read has returned breach for a document stored as safe
C10_Witness ==
    /\ view.fresh
    /\ view.op = "read"
    /\ view.status = "breach"
    /\ doc.sla.status = "safe"

(***************************************************************************)
(* C11                                                                     *)
(***************************************************************************)
\* the state change of the request that res answers is in the store
ChangeInPlace ==
    CASE res.op = "createComplaint" ->
             /\ res.cid \in ComplaintIds
             /\ complaints[res.cid].exists
             /\ complaints[res.cid].citizen.userId = res.user
      [] res.op = "updateComplaintStatus" ->
             complaints[res.cid].status = res.target
      [] res.op = "assignComplaintToMitra" ->
             /\ complaints[res.cid].assignedMitra = res.target
             /\ complaints[res.cid].assignedOfficer = res.user
      [] res.op = "register" -> users[res.user].registered
      [] OTHER -> FALSE

SuccessCode ==
    IF res.op \in {"createComplaint", "register"} THEN 201 ELSE 200

\* C11: when the e-mail or the SMS of a complaint creation, a status
\* update, a mitra assignment or a registration fails, the request is still
\* answered with its success code and its state change is in the store.
C11_NotificationFailureIsNotFatal ==
    res.notice \in Deliveries \ {"sent"} =>
        /\ res.code = SuccessCode
        /\ ChangeInPlace

\* a status update to resolved was answered 200 although its SMS failed
C11_Witness ==
    /\ res.op = "updateComplaintStatus"
    /\ res.notice = "smsFails"
    /\ res.code = 200
    /\ res.target = "resolved"
    /\ complaints[res.cid].status = "resolved"

(***************************************************************************)
(* C12                                                                     *)
(***************************************************************************)
\* the status codes of the shapes that err matches
ShapeCodes(err) ==
    (IF err.name = "CastError" THEN {404} ELSE {})
    \cup (IF err.code = JNum(11000) THEN {400} ELSE {})
    \cup (IF err.name = "ValidationError" THEN {400} ELSE {})
    \cup (IF err.code \in {JStr("LIMIT_FILE_SIZE"), JStr("LIMIT_UNEXPECTED_FILE")}
          THEN {400} ELSE {})
    \cup (IF err.name \in {"JsonWebTokenError", "TokenExpiredError"}
          THEN {401} ELSE {})
    \cup (IF err.statusCode = 429 THEN {429} ELSE {})

\* C12: the handler answers with the status code of a shape the error
\* matches (CastError 404; code 11000, ValidationError and the two upload
\* codes 400; the two JWT errors 401; statusCode 429 as 429); an error of no
\* shape is answered with its own statusCode, and with 500 when it has none.
C12_StatusOfTheShape ==
    handled.done =>
        IF ShapeCodes(handled.err) # {}
        THEN handled.status \in ShapeCodes(handled.err)
        ELSE IF handled.err.statusCode # 0
        THEN handled.status = handled.err.statusCode
        ELSE handled.status = 500

\* a CastError without a statusCode was answered 404
C12_Witness ==
    /\ handled.done
    /\ handled.err = [name |-> "CastError", code |-> JUndef, statusCode |-> 0]
    /\ handled.status = 404

(***************************************************************************)
(* C13                                                                     *)
(***************************************************************************)
\* C13: a complaint whose SLA deadline has passed while it is not resolved,
\* closed or rejected is eventually escalated, whether or not anybody sends
\* a request.
C13_OverdueIsEscalated ==
    [](isOverdue(doc, now) => <>(doc.status = "escalated"))

(***************************************************************************)
(* C14                                                                     *)
(***************************************************************************)
\* complaint c lies in the scope of user u's role
InScope(u, c) ==
    CASE users[u].role = "citizen" -> complaints[c].citizen.userId = u
      [] users[u].role = "officer" ->
             complaints[c].department = users[u].department
      [] users[u].role = "mitra" -> complaints[c].assignedMitra = u
      [] OTHER -> TRUE

\* C14: whatever the query parameters, the list answered to an officer holds
\* complaints of the officer's department only, to a citizen the citizen's
\* own complaints only, to a mitra the complaints assigned to the mitra only.
C14_ListWithinScope ==
    (res.op = "getComplaints" /\ res.code = 200) =>
        \A c \in res.list : InScope(res.user, c)

C16_FiveRecordedMeansLocked ==
    account.loginAttempts >= MaxLoginAttempts => account.lockUntil # 0

(***************************************************************************)
(* C17                                                                     *)
(***************************************************************************)
\* the lock of the loaded document lies in the past
LockExpired(user, t) == user.lockUntil # 0 /\ user.lockUntil < t

\* C17: with the requests handled one after another, a login answered 200
\* leaves loginAttempts at 0 and lockUntil unset; a failed attempt on an
\* account whose lock has expired leaves loginAttempts at 1 and lockUntil
\* unset, and from there the account is locked by the failure that brings
\* loginAttempts to five, not before.
C17_CountStartsAgain ==
    /\ (authRes.op = "login" /\ authRes.code = 200) =>
           (account.loginAttempts = 0 /\ account.lockUntil = 0)
    /\ (/\ authRes.op = "login"
        /\ authRes.code = 401
        /\ LockExpired(authRes.user, authRes.at)) =>
           (account.loginAttempts = 1 /\ account.lockUntil = 0)
    /\ (/\ authRes.op = "login"
        /\ authRes.code = 401
        /\ authRes.user.lockUntil = 0) =>
           /\ account.loginAttempts = authRes.user.loginAttempts + 1
           /\ (account.lockUntil # 0) = (account.loginAttempts = MaxLoginAttempts)

\* a wrong password after a lock of five failures ran out: the count is 1
C17_Witness ==
    /\ authRes.op = "login"
    /\ authRes.code = 401
    /\ authRes.user.loginAttempts = MaxLoginAttempts
    /\ LockExpired(authRes.user, authRes.at)
    /\ account.loginAttempts = 1
    /\ account.lockUntil = 0

(***************************************************************************)
(* C18                                                                     *)
(***************************************************************************)
\* the answer is to a request of the user, sent while deactivated
ByDeactivated ==
    /\ authRes.op \in {"login", "protect", "socketAuth"}
    /\ ~users[AuthUser].isActive

\* C18 as stated: while the user is deactivated protect answers 401 to every
\* token, login answers 401 and a socket connection is rejected.
C18_DeactivatedGets401 ==
    ByDeactivated => authRes.code = 401

\* C18 as the code has it: while the user is deactivated no request of the
\* user is let in: protect answers 401 to every token, a socket connection
\* is rejected, and login answers 401, or 423 while the account is locked
\* as well, and signs no token.
C18_DeactivatedIsRefused ==
    ByDeactivated =>
        /\ authRes.code = IF authRes.op = "login" /\ isLocked(authRes.user, authRes.at)
                          THEN 423 ELSE 401
        /\ ~authRes.signed

\* a token signed before the deactivation was answered 401 by protect
C18_Witness ==
    /\ ByDeactivated
    /\ authRes.op = "protect"
    /\ authRes.token \in jwts
    /\ authRes.code = 401

(***************************************************************************)
(* C19                                                                     *)
(***************************************************************************)
\* the password was changed after the token with this iat was signed
ChangedAfter(iat) == account.passwordChangedAt # 0 /\ iat < account.passwordChangedAt

\* C19: protect answers 401 to every token signed for the user before the
\* password was last changed, and lets the token of the change itself in.
C19_OldTokensRejected ==
    authRes.op = "protect" /\ authRes.token \in jwts =>
        /\ ChangedAfter(authRes.token) => authRes.code = 401
        /\ (/\ authRes.token = account.passwordChangedAt
            /\ users[AuthUser].isActive) => authRes.code = 200

(***************************************************************************)
(* C20                                                                     *)
(***************************************************************************)
\* the reset answered by authRes carried the stored token before its expiry
ResetInTime ==
    /\ authRes.user.resetPasswordToken = sha256(authRes.token)
    /\ authRes.at < authRes.user.resetPasswordExpire

\* C20: resetPassword changes the password only with the token that is
\* stored and before its expiry, which lies at most 10 minutes after the
\* token was generated; the reset removes the token, so the same token is
\* answered 400 from then on, as is an expired one, each leaving the account
\* as it is; and the stored token is only ever replaced by one never
\* generated before, so a token that forgotPassword has superseded or a
\* reset has used never matches again.
C20_ResetTokenOnceInTime ==
    /\ [](authRes.op = "resetPassword" =>
            IF ResetInTime
            THEN /\ authRes.code = 200
                 /\ account.password = bcryptHash(authRes.entered)
                 /\ account.resetPasswordToken = 0
                 /\ account.resetPasswordExpire = 0
            ELSE /\ authRes.code = 400
                 /\ account = authRes.user)
    /\ [](account.resetPasswordToken # 0 =>
            /\ account.resetPasswordToken = sha256(resetIssued)
            /\ account.resetPasswordExpire <= clock + ResetMinutes)
    /\ [][account'.resetPasswordToken \notin {0, account.resetPasswordToken} =>
             /\ resetIssued' = resetIssued + 1
             /\ account'.resetPasswordToken = sha256(resetIssued')]_vars

\* the token that has just changed the password was sent again in the same
\* minute and answered 400
C20_Witness ==
    /\ authRes.op = "resetPassword"
    /\ authRes.code = 400
    /\ authRes.token = 1
    /\ resetIssued = 1
    /\ clock = 0
    /\ account.password = bcryptHash("p1")
    /\ account.resetPasswordToken = 0

(***************************************************************************)
(* C21                                                                     *)
(***************************************************************************)
\* C21: a forgotPassword whose e-mail could not be sent answers 500 and
\* leaves no reset token and no expiry stored, and a forgotPassword that
\* answers 200 has sent its e-mail.
C21_FailedMailLeavesNoToken ==
    authRes.op = "forgotPassword" /\ authRes.code # 401 =>
        IF authRes.mailed
        THEN authRes.code = 200
        ELSE /\ authRes.code = 500
             /\ account.resetPasswordToken = 0
             /\ account.resetPasswordExpire = 0

(***************************************************************************)
(* C22                                                                     *)
(***************************************************************************)
\* the verification that set isPhoneVerified was presented with the stored
\* code, unexpired, generated for the number the user has now and sent to it
VerifiedByCode ==
    /\ codeLog.byCode
    /\ codeLog.byInTime
    /\ codeLog.byDelivered
    /\ codeLog.byNumber = phone.phoneNumber

RECURSIVE WithinWindows(_, _, _, _)
WithinWindows(h, i, first, count) ==
    IF i > Len(h) THEN TRUE
    ELSE IF count > 0 /\ h[i].t - first <= windowMs
    THEN IF count < maxAttempts
         THEN h[i].let /\ WithinWindows(h, i + 1, first, count + 1)
         ELSE ~h[i].let /\ WithinWindows(h, i + 1, first, count)
    ELSE h[i].let /\ WithinWindows(h, i + 1, h[i].t, 1)

\* C23: of the requests of one client key, counted from the first one let
\* through, maxAttempts are let through until windowMs after that first one
\* and every further one up to then is answered 429, neither counted nor
\* moving the window; the first request later than that is let through and
\* begins the next window.
C23_AtMostMaxAttemptsPerWindow ==
    /\ WithinWindows(limitLog, 1, 0, 0)
    /\ limitRes.key # "" => limitRes.code \in {0, 429}

\* three requests were let through, one exactly windowMs after the first
\* was answered 429, and the next one, a tick later, was let through
C23_Witness ==
    /\ Len(limitLog) = MaxHistory
    /\ \E i \in 1 .. (Len(limitLog) - 1) :
          /\ ~limitLog[i].let
          /\ limitLog[i].t = limitLog[1].t + windowMs
          /\ limitLog[i + 1].let
          /\ limitLog[i + 1].t = limitLog[1].t + windowMs + 1

====
